---- MODULE Spec2Model ----
(***************************************************************************)
(* Tool registry, tool loader and agent factory of the agent framework     *)
(* accelerator.                                                            *)
(*                                                                         *)
(*   tools/_decorators.py   tool marker (the _tool_metadata attribute)     *)
(*   tools/_registry.py     ToolRegistry, the process-wide catalog         *)
(*   tools/_loader.py       ToolLoader, filesystem discovery               *)
(*   agents/agent_factory.py  AgentFactory: tool resolution, chat client   *)
(*                                                                         *)
(* Python dicts keep insertion order, so a dict is modelled as a sequence  *)
(* of items with pairwise distinct keys.  Python lists are sequences.      *)
(***************************************************************************)
EXTENDS Integers, Sequences, FiniteSets, TLC

VARIABLES
    tools,          \* ToolRegistry._tools: dict tool_id -> {function, metadata}
    last_op,        \* the registry/factory operation that ran last, with its arguments
    discovered,     \* the dict the most recent discover_tools() pass returned
    load_errors,    \* modules that pass logged with "Error loading module"
    fs,             \* load status of the tool files that can change on disk
    fs_changed,     \* whether a file changed since the most recent pass
    listable,       \* whether tools_dir.iterdir() works (the directory is there and readable)
    sys_modules,    \* sys.modules: full module paths importlib has cached
    pass_log,       \* the last two passes: [ids found, fs unchanged since the pass before]
    config,         \* the agent config handed to _discover_tools_for_agent
    tool_functions, \* the list _discover_tools_for_agent returned for config
    model_config,   \* config["model"] handed to _build_chat_client
    env,            \* credentials / optional SDK present in the process
    providers,      \* _build_chat_client: the candidate list being tried
    idx,            \* _build_chat_client: position of the for loop in providers
    last_error,     \* _build_chat_client: last_error
    attempts,       \* providers whose construction was attempted, in order
    pc,             \* _build_chat_client: "idle", "loop", "returned", "raised"
    outcome,        \* what _build_chat_client gave its caller
    instance,       \* ToolRegistry._instance: None or the object __new__ made
    initialized,    \* ToolRegistry._initialized
    handles,        \* the objects the calls ToolRegistry() have returned
    all_tools,      \* [dict]: the dict a caller got from list_all_tools(), as it is now
    summary,        \* what the most recent get_summary() returned
    agents_dir,     \* the configs_dir discover_all_agents was given last
    agents,         \* the dict discover_all_agents returned
    agent_failures, \* the configs it logged as "Failed to load"
    agent_tools_map,\* AgentFactory.agent_tools_map
    drafts,         \* the list in the drafts JSON file
    outbox,         \* the drafts handed to send_email / send_whatsapp_message
    rejected,       \* the draft ids for which reject_draft succeeded
    reply,          \* what the most recent draft tool call returned
    email_env,      \* the environment the account manager read last
    manager,        \* EmailAccountManager._instance: None or [accounts, default_account_id]
    threads,        \* the running threads: thread name -> [op, pc, locals]
    now,            \* datetime.now(), in whole seconds
    func_attrs      \* callable -> its _tool_metadata attribute, or Missing

registry_vars == <<tools, last_op>>
loader_vars   == <<discovered, load_errors, fs, fs_changed, listable, sys_modules, pass_log>>
factory_vars  == <<config, tool_functions>>
client_vars   == <<model_config, env, providers, idx, last_error, attempts, pc, outcome>>
singleton_vars == <<instance, initialized, handles>>
view_vars     == <<all_tools, summary>>
agent_vars    == <<agents_dir, agents, agent_failures, agent_tools_map>>
draft_vars    == <<drafts, outbox, rejected, reply>>
account_vars  == <<email_env, manager>>
runtime_vars  == <<threads, now, func_attrs>>
app_vars == <<singleton_vars, view_vars, agent_vars, draft_vars, account_vars, runtime_vars>>
vars == <<registry_vars, loader_vars, factory_vars, client_vars, app_vars>>

(***************************************************************************)
(* Bounds of the model.                                                    *)
(***************************************************************************)
MaxTools == 3
MaxProviders == 3
MaxDrafts == 2
MaxSends == 3
MaxAccounts == 2
MaxSeconds == 1
MaxDays == 1

(***************************************************************************)
(* Python values.                                                          *)
(***************************************************************************)
None == [none |-> TRUE]

\* the n-th object the process allocated
Object(n) == [object |-> n]

Range(s) == {s[i] : i \in 1..Len(s)}

Reverse(s) == [i \in 1..Len(s) |-> s[Len(s) + 1 - i]]

\* dict: a sequence of items [id, function, metadata] with distinct ids
DictKeys(d) == {d[i].id : i \in 1..Len(d)}

\* d[key] = value: an existing key keeps its position, a new key goes last
DictSet(d, item) ==
    IF item.id \in DictKeys(d)
    THEN [i \in 1..Len(d) |-> IF d[i].id = item.id THEN item ELSE d[i]]
    ELSE Append(d, item)

\* d.update(other): other's items in other's order
RECURSIVE DictUpdate(_, _)
DictUpdate(d, other) ==
    IF other = <<>> THEN d
    ELSE DictUpdate(DictSet(d, Head(other)), Tail(other))

\* the value {"function": ..., "metadata": ...} of an item
ToolOf(item) == [function |-> item.function, metadata |-> item.metadata]

\* [f(x) for x in s]
MapToolOf(s) == [i \in 1..Len(s) |-> ToolOf(s[i])]

(***************************************************************************)
(* tools/_decorators.py: metadata attached by @tool(domain, name, tags).   *)
(* A name is a record: `private` says that it starts with an underscore.   *)
(***************************************************************************)
Metadata(domain, name, tags) == [domain |-> domain, name |-> name, tags |-> tags]

\* The callables of the model and the @tool(...) line above each.  "echo" is
\* a plain callable that was never marked.
MarkedAs ==
    [get_forecast     |-> Metadata("weather", "get_forecast", {"forecast"}),
     get_forecast_v2  |-> Metadata("weather", "get_forecast", {"forecast", "realtime"}),
     get_weather      |-> Metadata("weather", "get_weather", {"realtime"}),
     get_stock_price  |-> Metadata("stock", "get_stock_price", {"realtime"}),
     cached_forecast  |-> Metadata("weather", "cached_forecast", {"forecast"}),
     format_price     |-> Metadata("stock", "format_price", {}),
     purge_cache      |-> Metadata("internal", "purge_cache", {}),
     registry_stats   |-> Metadata("tools", "registry_stats", {}),
     deep_forecast    |-> Metadata("weather", "deep_forecast", {"forecast"})]

Marked == DOMAIN MarkedAs

\* getattr(func, "_tool_metadata", None)
get_tool_metadata(func) == IF func \in Marked THEN MarkedAs[func] ELSE None

is_tool(func) == func \in Marked

\* Marking at run time.  func_attrs holds the _tool_metadata attribute of each
\* callable; Missing stands for a callable without the attribute.  len is a
\* builtin: it takes no attributes.
Missing == [missing |-> TRUE]

Callables == {"get_forecast", "echo", "len"}

\* func.__name__
dunder_name(func) == func

\* getattr(func, "_tool_metadata", None)
getattr_tool_metadata(a, func) == IF a[func] = Missing THEN None ELSE a[func]

\* hasattr(func, "_tool_metadata")
hasattr_tool_metadata(a, func) == a[func] /= Missing

\* (mutant) the name is stored as given, without the default
tool_without_default_name(a, func, domain, name, tags) ==
    IF func = "len"
    THEN [attrs |-> a, returned |-> None, raised |-> "AttributeError"]
    ELSE [attrs |-> [a EXCEPT ![func] = Metadata(domain, name, tags)],
          returned |-> [callable |-> func], raised |-> ""]

\* tool(domain, name, tags=tags)(func); name = "" is the call without name.
\* Gives the attributes, what the decorator returned and what it raised.
tool(a, func, domain, name, tags) ==
    IF func = "len"
    THEN [attrs |-> a, returned |-> None, raised |-> "AttributeError"]
    ELSE [attrs |-> [a EXCEPT ![func] =
                        Metadata(domain, IF name /= "" THEN name ELSE dunder_name(func), tags)],
          returned |-> [callable |-> func], raised |-> ""]

\* one use of the decorator
Mark(func, domain, name, tags) ==
    LET done == tool(func_attrs, func, domain, name, tags)
    IN  /\ func_attrs' = done.attrs
        /\ last_op' = [op |-> "tool", func |-> func, domain |-> domain, name |-> name,
                       tags |-> tags, returned |-> done.returned, raised |-> done.raised]
        /\ UNCHANGED <<tools, threads, now, loader_vars, factory_vars, client_vars>>
        /\ UNCHANGED <<singleton_vars, view_vars, agent_vars, draft_vars, account_vars>>

(***************************************************************************)
(* tools/_registry.py                                                      *)
(***************************************************************************)
\* (mutant) dict.setdefault: an identifier that is present keeps its entry
register_tool_first_wins(t, tool_id, func, metadata) ==
    IF tool_id \in DictKeys(t) THEN t
    ELSE Append(t, [id |-> tool_id, function |-> func, metadata |-> metadata])

\* (mutant) a re-registered identifier is removed and put last
register_tool_moves_to_end(t, tool_id, func, metadata) ==
    Append(SelectSeq(t, LAMBDA item : item.id /= tool_id),
           [id |-> tool_id, function |-> func, metadata |-> metadata])

\* self._tools[tool_id] = {"function": func, "metadata": metadata}
register_tool(t, tool_id, func, metadata) ==
    DictSet(t, [id |-> tool_id, function |-> func, metadata |-> metadata])

\* (mutant) the domain is read from the callable's own _tool_metadata
get_tools_by_domain_of_callable(t, domain) ==
    MapToolOf(SelectSeq(t, LAMBDA item :
        /\ is_tool(item.function)
        /\ get_tool_metadata(item.function).domain = domain))

get_tools_by_domain(t, domain) ==
    MapToolOf(SelectSeq(t, LAMBDA item : item.metadata.domain = domain))

\* (mutant) all(...) in place of any(...)
get_tools_by_tags_all(t, tags) ==
    MapToolOf(SelectSeq(t, LAMBDA item :
        \A i \in 1..Len(tags) : tags[i] \in item.metadata.tags))

get_tools_by_tags(t, tags) ==
    MapToolOf(SelectSeq(t, LAMBDA item :
        \E i \in 1..Len(tags) : tags[i] \in item.metadata.tags))

get_tool(t, tool_id) ==
    IF tool_id \in DictKeys(t)
    THEN ToolOf(t[CHOOSE i \in 1..Len(t) : t[i].id = tool_id])
    ELSE None

\* (mutant) the catalog always counts as empty
count_tools_zero(t) == 0

count_tools(t) == Len(t)

\* (mutant) clear() leaves the dict as it is
clear_keeps(t) == t

clear(t) == <<>>

\* for tool_id, tool_data in discovered.items(): self.register_tool(...)
RECURSIVE register_all(_, _)
register_all(t, found) ==
    IF found = <<>> THEN t
    ELSE register_all(
            register_tool(t, Head(found).id, Head(found).function, Head(found).metadata),
            Tail(found))

\* (mutant) reload() without the clear()
reload_without_clear(t, found) == register_all(t, found)

\* reload(), given what its discover_tools() pass returned
reload(t, found) == register_all(clear(t), found)

(***************************************************************************)
(* The tools directory.  A directory entry is [name, is_dir]; the files    *)
(* forecast.py, current_weather.py and stock_price.py can be missing, load *)
(* or raise on import (fs); every other entry is always there and loads.   *)
(***************************************************************************)
Name(private, stem, suffix) == [private |-> private, stem |-> stem, suffix |-> suffix]

Entry(private, stem, suffix, is_dir) ==
    [name |-> Name(private, stem, suffix), is_dir |-> is_dir]

\* (mutant) the underscore test is left out
startswith_underscore_never(name) == FALSE

\* name.startswith("_")
startswith_underscore(name) == name.private

\* the module paths whose file can change
ToolFiles == {<<"weather", "forecast">>, <<"weather", "current_weather">>,
              <<"stock", "stock_price">>}

FileStatus == {"absent", "ok", "raises"}

\* tools/: weather/, stock/, _internal/, toplevel.py
ToolsDirEntries ==
    << Entry(FALSE, "weather", "", TRUE),
       Entry(TRUE, "internal", "", TRUE),
       Entry(FALSE, "toplevel", ".py", FALSE),
       Entry(FALSE, "stock", "", TRUE) >>

\* what each directory holds (sub/ is a directory inside weather/)
DirEntries(dir_name) ==
    CASE dir_name = "weather" ->
            << Entry(FALSE, "forecast", ".py", FALSE),
               Entry(FALSE, "sub", "", TRUE),
               Entry(FALSE, "current_weather", ".py", FALSE) >>
      [] dir_name = "stock" ->
            << Entry(TRUE, "helpers", ".py", FALSE),
               Entry(FALSE, "stock_price", ".py", FALSE),
               Entry(FALSE, "notes", ".txt", FALSE) >>
      [] dir_name = "internal" -> << Entry(FALSE, "purge", ".py", FALSE) >>
      [] dir_name = "sub" -> << Entry(FALSE, "deep", ".py", FALSE) >>
      [] OTHER -> << >>

\* the status of the file behind a module path
StatusOf(files, path) == IF path \in DOMAIN files THEN files[path] ELSE "ok"

\* the entries of a directory that exist, in the order the platform lists them
\* (reversed = TRUE: the opposite order)
Listing(files, dir_name, entries, reversed) ==
    LET present == SelectSeq(entries, LAMBDA e :
                       e.is_dir \/ StatusOf(files, <<dir_name, e.name.stem>>) /= "absent")
    IN  IF reversed THEN Reverse(present) ELSE present

\* domain_dir.glob("*.py")
glob_py(listing) == SelectSeq(listing, LAMBDA e : e.name.suffix = ".py")

\* dir(module): the module's attributes, sorted by name; value is the object
Attr(private, name, value) == [name |-> Name(private, name, ""), value |-> value]

ModuleAttrs(path) ==
    CASE path = <<"weather", "forecast">> ->
            << Attr(TRUE, "cached_forecast", "cached_forecast"),
               Attr(FALSE, "get_forecast", "get_forecast"),
               Attr(FALSE, "tool", "tool") >>
      [] path = <<"weather", "current_weather">> ->
            << Attr(FALSE, "get_forecast", "get_forecast_v2"),
               Attr(FALSE, "get_weather", "get_weather"),
               Attr(FALSE, "tool", "tool") >>
      [] path = <<"stock", "stock_price">> ->
            << Attr(FALSE, "get_stock_price", "get_stock_price"),
               Attr(FALSE, "os", "os") >>
      [] path = <<"stock", "helpers">> ->
            << Attr(FALSE, "format_price", "format_price") >>
      [] path = <<"internal", "purge">> ->
            << Attr(FALSE, "purge_cache", "purge_cache") >>
      [] path = <<"tools", "toplevel">> ->
            << Attr(FALSE, "registry_stats", "registry_stats") >>
      [] path = <<"sub", "deep">> ->
            << Attr(FALSE, "deep_forecast", "deep_forecast") >>
      [] OTHER -> << >>

(***************************************************************************)
(* tools/_loader.py                                                        *)
(***************************************************************************)
\* f"{metadata['domain']}.{metadata['name']}"
ToolId(metadata) == metadata.domain \o "." \o metadata.name

\* importlib.import_module(full_module_path): a cached module is returned as
\* it is; otherwise the file is executed, and cached when it does not raise
import_module(files, cache, path) ==
    IF path \in cache THEN [raised |-> FALSE, cache |-> cache]
    ELSE IF StatusOf(files, path) = "ok"
         THEN [raised |-> FALSE, cache |-> cache \cup {path}]
         ELSE [raised |-> TRUE, cache |-> cache]

\* for attr_name in dir(module): ...
RECURSIVE scan_attrs(_, _)
scan_attrs(found, attrs) ==
    IF attrs = <<>> THEN found
    ELSE LET attr == Head(attrs)
             metadata == get_tool_metadata(attr.value)
         IN  IF startswith_underscore(attr.name)
             THEN scan_attrs(found, Tail(attrs))
             ELSE IF metadata /= None
                  THEN scan_attrs(
                          DictSet(found, [id |-> ToolId(metadata),
                                          function |-> attr.value,
                                          metadata |-> metadata]),
                          Tail(attrs))
                  ELSE scan_attrs(found, Tail(attrs))

\* (mutant) the try statement around the whole loop: the first module that
\* raises ends the scan of its directory
RECURSIVE scan_files_abort(_, _, _, _)
scan_files_abort(files, acc, domain_name, py_files) ==
    IF py_files = <<>> THEN acc
    ELSE LET py_file == Head(py_files)
             path == <<domain_name, py_file.name.stem>>
             loaded == import_module(files, acc.cache, path)
         IN  IF startswith_underscore(py_file.name)
             THEN scan_files_abort(files, acc, domain_name, Tail(py_files))
             ELSE IF loaded.raised
                  THEN [acc EXCEPT !.failed = acc.failed \cup {path}]
                  ELSE scan_files_abort(files,
                          [acc EXCEPT !.found = scan_attrs(acc.found, ModuleAttrs(path)),
                                      !.cache = loaded.cache],
                          domain_name, Tail(py_files))

\* (mutant) tools are collected only when their module is imported for the
\* first time; a module that sys.modules already holds is not scanned again
RECURSIVE scan_files_new_only(_, _, _, _)
scan_files_new_only(files, acc, domain_name, py_files) ==
    IF py_files = <<>> THEN acc
    ELSE LET py_file == Head(py_files)
             path == <<domain_name, py_file.name.stem>>
             loaded == import_module(files, acc.cache, path)
         IN  IF startswith_underscore(py_file.name) \/ path \in acc.cache
             THEN scan_files_new_only(files, acc, domain_name, Tail(py_files))
             ELSE IF loaded.raised
                  THEN scan_files_new_only(files,
                          [acc EXCEPT !.failed = acc.failed \cup {path}],
                          domain_name, Tail(py_files))
                  ELSE scan_files_new_only(files,
                          [acc EXCEPT !.found = scan_attrs(acc.found, ModuleAttrs(path)),
                                      !.cache = loaded.cache],
                          domain_name, Tail(py_files))

\* the loop over py_file of _scan_domain_directory.  acc = [found, cache,
\* failed]: the dict built so far, sys.modules, and the modules logged as
\* "Error loading module" by the except branch
RECURSIVE scan_files(_, _, _, _)
scan_files(files, acc, domain_name, py_files) ==
    IF py_files = <<>> THEN acc
    ELSE LET py_file == Head(py_files)
             path == <<domain_name, py_file.name.stem>>
             loaded == import_module(files, acc.cache, path)
         IN  IF startswith_underscore(py_file.name)
             THEN scan_files(files, acc, domain_name, Tail(py_files))
             ELSE IF loaded.raised
                  THEN scan_files(files,
                                  [acc EXCEPT !.failed = acc.failed \cup {path}],
                                  domain_name, Tail(py_files))
                  ELSE scan_files(files,
                                  [acc EXCEPT !.found = scan_attrs(acc.found, ModuleAttrs(path)),
                                              !.cache = loaded.cache],
                                  domain_name, Tail(py_files))

\* _scan_domain_directory: its own dict `discovered` starts empty
scan_domain_directory(files, acc, domain_name, reversed) ==
    scan_files(files, [acc EXCEPT !.found = <<>>], domain_name,
               glob_py(Listing(files, domain_name, DirEntries(domain_name), reversed)))

\* the loop over subdir of discover_tools
RECURSIVE scan_subdirs(_, _, _, _)
scan_subdirs(files, acc, subdirs, reversed) ==
    IF subdirs = <<>> THEN acc
    ELSE LET subdir == Head(subdirs)
             scanned == scan_domain_directory(files, acc, subdir.name.stem, reversed)
         IN  IF ~subdir.is_dir
             THEN scan_subdirs(files, acc, Tail(subdirs), reversed)
             ELSE IF startswith_underscore(subdir.name)
                  THEN scan_subdirs(files, acc, Tail(subdirs), reversed)
                  ELSE scan_subdirs(files,
                                    [scanned EXCEPT !.found = DictUpdate(acc.found, scanned.found)],
                                    Tail(subdirs), reversed)

\* order = [root, files]: whether iterdir() and glob() list in reverse
Orders == [root : BOOLEAN, files : BOOLEAN]

discover_tools(files, cache, order) ==
    scan_subdirs(files, [found |-> <<>>, cache |-> cache, failed |-> {}],
                 Listing(files, "tools", ToolsDirEntries, order.root), order.files)

(***************************************************************************)
(* agents/agent_factory.py: _discover_tools_for_agent.  A config is        *)
(* [tool_domains, has_tool_tags, tool_tags, exclude_tools]; a missing      *)
(* tool_domains or exclude_tools key reads as the empty list.              *)
(***************************************************************************)
\* (mutant) append without the "not in tool_functions" test
RECURSIVE append_all(_, _)
append_all(funcs, found) ==
    IF found = <<>> THEN funcs
    ELSE append_all(Append(funcs, Head(found).function), Tail(found))

\* for tool in ...: if tool["function"] not in tool_functions: append
RECURSIVE append_new(_, _)
append_new(funcs, found) ==
    IF found = <<>> THEN funcs
    ELSE append_new(IF Head(found).function \in Range(funcs)
                    THEN funcs
                    ELSE Append(funcs, Head(found).function),
                    Tail(found))

\* for domain in config.get("tool_domains", []): ...
RECURSIVE tools_of_domains(_, _, _)
tools_of_domains(t, funcs, domains) ==
    IF domains = <<>> THEN funcs
    ELSE tools_of_domains(t, append_new(funcs, get_tools_by_domain(t, Head(domains))),
                          Tail(domains))

\* getattr(func, "_tool_metadata", {}).get("name"); "<None>" is Python's None
NameOfCallable(func) ==
    IF is_tool(func) THEN get_tool_metadata(func).name ELSE "<None>"

\* (mutant) the tag-matched tools are collected before the domain tools
discover_tools_for_agent_tags_first(t, cfg) ==
    LET by_tags == IF cfg.has_tool_tags
                   THEN append_new(<<>>, get_tools_by_tags(t, cfg.tool_tags))
                   ELSE <<>>
        selected == tools_of_domains(t, by_tags, cfg.tool_domains)
    IN  IF cfg.exclude_tools /= <<>>
        THEN SelectSeq(selected, LAMBDA func :
                 NameOfCallable(func) \notin Range(cfg.exclude_tools))
        ELSE selected

discover_tools_for_agent(t, cfg) ==
    LET by_domain == tools_of_domains(t, <<>>, cfg.tool_domains)
        selected == IF cfg.has_tool_tags
                    THEN append_new(by_domain, get_tools_by_tags(t, cfg.tool_tags))
                    ELSE by_domain
    IN  IF cfg.exclude_tools /= <<>>
        THEN SelectSeq(selected, LAMBDA func :
                 NameOfCallable(func) \notin Range(cfg.exclude_tools))
        ELSE selected

\* the agent configs of the model
Seqs(S, n) == UNION {[1..k -> S] : k \in 0..n}

Configs ==
    [tool_domains : Seqs({"weather", "custom"}, 2),
     has_tool_tags : {TRUE},
     tool_tags : Seqs({"forecast", "realtime"}, 2),
     exclude_tools : {<<>>, <<"get_forecast">>, <<"echo">>, <<"echo", "get_forecast">>}]
    \cup
    [tool_domains : Seqs({"weather", "custom"}, 2),
     has_tool_tags : {FALSE},
     tool_tags : {<<>>},
     exclude_tools : {<<>>, <<"get_forecast">>, <<"echo">>, <<"echo", "get_forecast">>}]

(***************************************************************************)
(* agents/agent_factory.py: _build_chat_client and the three builders.     *)
(* model_config = [providers, provider, credential_type, api_key]: the     *)
(* keys of config["model"]; provider = "" when the key is missing, api_key *)
(* says whether the config carries one.  env says which credentials the    *)
(* environment holds and whether OpenAIChatClient could be imported.       *)
(* A builder gives [ok |-> TRUE, client] or [ok |-> FALSE, error].         *)
(***************************************************************************)
Built(class, provider) == [ok |-> TRUE, client |-> [class |-> class, provider |-> provider]]

Raised(type, message) == [ok |-> FALSE, error |-> [type |-> type, message |-> message]]

build_azure_client(mc, e) ==
    IF mc.credential_type = "azure_cli" THEN Built("AzureOpenAIChatClient", "azure")
    ELSE IF mc.credential_type = "api_key"
         THEN IF ~e.AZURE_OPENAI_API_KEY
              THEN Raised("ValueError", "AZURE_OPENAI_API_KEY not found in environment")
              ELSE Built("AzureOpenAIChatClient", "azure")
         ELSE Raised("ValueError", "Unsupported credential type")

build_openrouter_client(mc, e) ==
    IF ~e.OPENAI_CLIENT_AVAILABLE
    THEN Raised("ImportError", "OpenAIChatClient not available in agent_framework")
    ELSE IF ~(mc.api_key \/ e.OPENROUTER_API_KEY)
         THEN Raised("ValueError", "OPENROUTER_API_KEY not found in environment or config")
         ELSE Built("OpenAIChatClient", "openrouter")

build_openai_client(mc, e) ==
    IF ~e.OPENAI_CLIENT_AVAILABLE
    THEN Raised("ImportError", "OpenAIChatClient not available in agent_framework")
    ELSE IF ~(mc.api_key \/ e.OPENAI_API_KEY)
         THEN Raised("ValueError", "OPENAI_API_KEY not found in environment or config")
         ELSE Built("OpenAIChatClient", "openai")

\* str.lower() on the provider names of the model
Lower(name) == IF name = "Azure" THEN "azure" ELSE name

\* providers = model_config.get("providers", []); the legacy provider field
\* is read, lowered, when that list is empty
provider_list(mc) ==
    IF mc.providers /= <<>> THEN mc.providers
    ELSE << Lower(IF mc.provider = "" THEN "azure" ELSE mc.provider) >>

Supported == {"azure", "openrouter", "openai"}

\* the if / elif chain inside the try
build_for(provider, mc, e) ==
    CASE provider = "azure" -> build_azure_client(mc, e)
      [] provider = "openrouter" -> build_openrouter_client(mc, e)
      [] provider = "openai" -> build_openai_client(mc, e)

\* (mutant) no fallback: the first failure ends the loop and is raised
loop_body_no_fallback(provider, mc, e, i, err) ==
    IF provider \in Supported
    THEN IF build_for(provider, mc, e).ok
         THEN [pc |-> "returned", last_error |-> err,
               outcome |-> [client |-> build_for(provider, mc, e).client, at |-> i]]
         ELSE [pc |-> "raised", last_error |-> err,
               outcome |-> [error |-> build_for(provider, mc, e).error, at |-> i]]
    ELSE [pc |-> "loop", last_error |-> err, outcome |-> None]

\* (mutant) last_error keeps the first exception
loop_body_first_error(provider, mc, e, i, err) ==
    IF provider \in Supported
    THEN IF build_for(provider, mc, e).ok
         THEN [pc |-> "returned", last_error |-> err,
               outcome |-> [client |-> build_for(provider, mc, e).client, at |-> i]]
         ELSE [pc |-> "loop", outcome |-> None,
               last_error |-> IF err = None
                              THEN [error |-> build_for(provider, mc, e).error, at |-> i]
                              ELSE err]
    ELSE [pc |-> "loop", last_error |-> err, outcome |-> None]

\* one pass through the body of "for provider in providers" at position i
\* with last_error = err.  An exception is [error, at]: at, the position
\* that raised it, stands for the identity of the exception object.
loop_body(provider, mc, e, i, err) ==
    IF provider \in Supported
    THEN IF build_for(provider, mc, e).ok
         THEN [pc |-> "returned", last_error |-> err,
               outcome |-> [client |-> build_for(provider, mc, e).client, at |-> i]]
         ELSE [pc |-> "loop", outcome |-> None,
               last_error |-> [error |-> build_for(provider, mc, e).error, at |-> i]]
    ELSE [pc |-> "loop", last_error |-> err, outcome |-> None]

\* after the loop: raise last_error, or ValueError when there is none
after_loop(err) ==
    IF err /= None THEN err
    ELSE [error |-> [type |-> "ValueError", message |-> "No valid providers configured"],
          at |-> 0]

ProviderNames == {"azure", "openrouter", "openai", "bogus"}

ModelConfigs ==
    [providers : Seqs(ProviderNames, MaxProviders) \ {<<>>},
     provider : {""},
     credential_type : {"azure_cli", "api_key", "certificate"},
     api_key : BOOLEAN]
    \cup
    [providers : {<<>>},
     provider : {"", "Azure", "openrouter", "bogus"},
     credential_type : {"azure_cli", "api_key", "certificate"},
     api_key : BOOLEAN]

Envs == [AZURE_OPENAI_API_KEY : BOOLEAN, OPENROUTER_API_KEY : BOOLEAN,
         OPENAI_API_KEY : BOOLEAN, OPENAI_CLIENT_AVAILABLE : BOOLEAN]

\* _build_chat_client(config) is entered: lines 219-230
BuildChatClient ==
    /\ pc = "idle"
    /\ providers' = provider_list(model_config)
    /\ idx' = 1
    /\ last_error' = None
    /\ attempts' = <<>>
    /\ pc' = "loop"
    /\ outcome' = None
    /\ UNCHANGED <<model_config, env, registry_vars, loader_vars, factory_vars, app_vars>>

\* one iteration of the for loop
TryProvider ==
    /\ pc = "loop"
    /\ idx <= Len(providers)
    /\ LET step == loop_body(providers[idx], model_config, env, idx, last_error)
       IN  /\ pc' = step.pc
           /\ last_error' = step.last_error
           /\ outcome' = step.outcome
    /\ attempts' = Append(attempts, providers[idx])
    /\ idx' = idx + 1
    /\ UNCHANGED <<model_config, env, providers, registry_vars, loader_vars, factory_vars, app_vars>>

\* the loop ran out of providers: lines 253-257
AllProvidersFailed ==
    /\ pc = "loop"
    /\ idx > Len(providers)
    /\ outcome' = after_loop(last_error)
    /\ pc' = "raised"
    /\ UNCHANGED <<model_config, env, providers, idx, last_error, attempts>>
    /\ UNCHANGED <<registry_vars, loader_vars, factory_vars, app_vars>>

(***************************************************************************)
(* agents/agent_factory.py: from_yaml, list_available_configs and          *)
(* discover_all_agents.  A YAML document is [kind, keys, name, tools,      *)
(* model]: kind "malformed" makes yaml.safe_load raise, "empty" makes it   *)
(* return None; keys are the top-level keys among name, description and    *)
(* instructions; tools and model are the tool and model keys.              *)
(***************************************************************************)
\* Python's order on the strings the model sorts
AsciiOrder == << "", "agent_config", "custom", "internal", "notes", "stock",
                 "stock_agent", "tools", "weather", "weather_agent" >>

str_lt(a, b) ==
    \E i, j \in 1..Len(AsciiOrder) : AsciiOrder[i] = a /\ AsciiOrder[j] = b /\ i < j

\* sorted(S) for strings that are pairwise different
RECURSIVE sorted(_)
sorted(S) ==
    IF S = {} THEN <<>>
    ELSE LET least == CHOOSE x \in S : \A y \in S : ~str_lt(y, x)
         IN  <<least>> \o sorted(S \ {least})

\* the for loop of _build_chat_client from position i on, as its caller sees it
RECURSIVE run_providers(_, _, _, _, _)
run_providers(provs, mc, e, i, err) ==
    IF i > Len(provs) THEN [ok |-> FALSE, error |-> after_loop(err).error]
    ELSE LET step == loop_body(provs[i], mc, e, i, err)
         IN  IF step.pc = "returned"
             THEN [ok |-> TRUE, client |-> step.outcome.client]
             ELSE run_providers(provs, mc, e, i + 1, step.last_error)

build_chat_client(mc, e) == run_providers(provider_list(mc), mc, e, 1, None)

\* from_yaml on a config file that exists: [ok |-> TRUE, agent] or
\* [ok |-> FALSE, error].  The text of the instructions is not modelled.
from_yaml(doc, t, e) ==
    IF doc.kind = "malformed" THEN Raised("YAMLError", "while parsing")
    ELSE IF doc.kind = "empty"
    THEN Raised("AttributeError", "'NoneType' object has no attribute 'get'")
    ELSE LET found == discover_tools_for_agent(t, doc.tools)
             chat_client == build_chat_client(doc.model, e)
         IN  IF ~chat_client.ok THEN chat_client
             ELSE IF "instructions" \notin doc.keys THEN Raised("KeyError", "instructions")
             ELSE IF "name" \notin doc.keys THEN Raised("KeyError", "name")
             ELSE IF "description" \notin doc.keys THEN Raised("KeyError", "description")
             ELSE [ok |-> TRUE,
                   agent |-> [name |-> doc.name, tools |-> found,
                              chat_client |-> chat_client.client]]

\* the names a configs directory can hold; the key is the stem without a
\* leading underscore
AgentFileName(key) ==
    CASE key = "draft" -> Name(TRUE, "draft", ".yaml")
      [] key = "notes" -> Name(FALSE, "notes", ".txt")
      [] OTHER -> Name(FALSE, key, ".yaml")

AgentFileKeys == {"weather_agent", "stock_agent", "agent_config", "draft", "notes"}

\* list_available_configs(configs_dir); dir = None: no such directory
list_available_configs(dir) ==
    IF dir = None THEN <<>>
    ELSE sorted({AgentFileName(key).stem : key \in
            {k \in AgentFileKeys :
                /\ dir[k].kind /= "absent"
                /\ AgentFileName(k).suffix = ".yaml"
                /\ AgentFileName(k).stem /= "agent_config"
                /\ ~startswith_underscore(AgentFileName(k))}})

\* (mutant) the try statement around the whole loop: the first config that
\* fails ends the discovery
RECURSIVE load_agents_abort(_, _, _, _, _)
load_agents_abort(dir, configs, acc, t, e) ==
    IF configs = <<>> THEN acc
    ELSE LET config_name == Head(configs)
             made == from_yaml(dir[config_name], t, e)
         IN  IF made.ok
             THEN load_agents_abort(dir, Tail(configs),
                     [acc EXCEPT
                        !.agents = DictSet(@, [id |-> config_name, agent |-> made.agent]),
                        !.tools_map = DictSet(@, [id |-> config_name,
                                                  tools |-> made.agent.tools])],
                     t, e)
             ELSE [acc EXCEPT !.failed = @ \cup {config_name}]

\* the loop over config_name of discover_all_agents.  acc = [agents, failed,
\* tools_map]: the dict built so far, the configs logged as failed, and
\* agent_tools_map
RECURSIVE load_agents(_, _, _, _, _)
load_agents(dir, configs, acc, t, e) ==
    IF configs = <<>> THEN acc
    ELSE LET config_name == Head(configs)
             made == from_yaml(dir[config_name], t, e)
         IN  IF made.ok
             THEN load_agents(dir, Tail(configs),
                     [acc EXCEPT
                        !.agents = DictSet(@, [id |-> config_name, agent |-> made.agent]),
                        !.tools_map = DictSet(@, [id |-> config_name,
                                                  tools |-> made.agent.tools])],
                     t, e)
             ELSE load_agents(dir, Tail(configs),
                     [acc EXCEPT !.failed = @ \cup {config_name}], t, e)

discover_all_agents(dir, t, e, tools_map) ==
    load_agents(dir, list_available_configs(dir),
                [agents |-> <<>>, failed |-> {}, tools_map |-> tools_map], t, e)

\* the YAML documents of the model
Mapping(keys, name, cfg, mc) ==
    [kind |-> "mapping", keys |-> keys, name |-> name, tools |-> cfg, model |-> mc]

WeatherTools ==
    [tool_domains |-> <<"weather">>, has_tool_tags |-> FALSE, tool_tags |-> <<>>,
     exclude_tools |-> <<>>]

AzureCli ==
    [providers |-> <<>>, provider |-> "", credential_type |-> "azure_cli",
     api_key |-> FALSE]

FallbackChain ==
    [providers |-> <<"openrouter", "openai">>, provider |-> "",
     credential_type |-> "azure_cli", api_key |-> FALSE]

AllKeys == {"name", "description", "instructions"}

AgentDocs ==
    { Mapping(AllKeys, "Weather Assistant", WeatherTools, AzureCli),
      Mapping(AllKeys, "Stock Assistant", WeatherTools, FallbackChain),
      Mapping({"name", "description"}, "No Instructions", WeatherTools, AzureCli),
      [kind |-> "malformed"],
      [kind |-> "empty"] }

\* no file of that name in the directory
NoFile == [kind |-> "absent"]

\* the configs directories of the model: weather_agent.yaml and
\* stock_agent.yaml vary; agent_config.yaml, _draft.yaml and notes.txt are
\* there and hold a config that would load
AgentsDirs ==
    {None} \cup
    {[key \in AgentFileKeys |->
        CASE key = "weather_agent" -> w
          [] key = "stock_agent" -> k
          [] OTHER -> Mapping(AllKeys, "Weather Assistant", WeatherTools, AzureCli)] :
        w \in AgentDocs \cup {NoFile}, k \in AgentDocs \cup {NoFile}}

\* AgentFactory.discover_all_agents(configs_dir) on a constructed factory;
\* dir is what configs_dir holds at the call
DiscoverAllAgents(dir) ==
    /\ last_op.op \in {"AgentFactory", "discover_all_agents"}
    /\ LET done == discover_all_agents(dir, tools, env, agent_tools_map)
       IN  /\ agents' = done.agents
           /\ agent_failures' = done.failed
           /\ agent_tools_map' = done.tools_map
    /\ agents_dir' = dir
    /\ last_op' = [op |-> "discover_all_agents"]
    /\ UNCHANGED <<tools, loader_vars, factory_vars, client_vars>>
    /\ UNCHANGED <<singleton_vars, view_vars, draft_vars, account_vars, runtime_vars>>

(***************************************************************************)
(* Operations on the catalog and the loader.                               *)
(***************************************************************************)
\* what callers hand to register_tool by hand
ManualIds == {"weather.get_forecast", "custom.echo"}
ManualFuncs == {"get_forecast", "echo"}
ManualMetadata == {Metadata("weather", "get_forecast", {"forecast"}),
                   Metadata("custom", "echo", {})}

\* bookkeeping of one discover_tools() pass whose result is pass
LogPass(pass) ==
    /\ discovered' = pass.found
    /\ load_errors' = pass.failed
    /\ sys_modules' = pass.cache
    /\ fs_changed' = FALSE
    /\ pass_log' = (IF pass_log = <<>> THEN <<>> ELSE <<pass_log[Len(pass_log)]>>)
                   \o <<[ids |-> DictKeys(pass.found),
                         unchanged |-> pass_log /= <<>> /\ ~fs_changed]>>
    /\ UNCHANGED <<fs, listable>>

\* ToolRegistry.register_tool(tool_id, func, metadata)
RegisterTool(tool_id, func, metadata) ==
    /\ tool_id \in DictKeys(tools) \/ Len(tools) < MaxTools
    /\ tools' = register_tool(tools, tool_id, func, metadata)
    /\ last_op' = [op |-> "register_tool", tool_id |-> tool_id,
                   func |-> func, metadata |-> metadata]
    /\ UNCHANGED <<loader_vars, factory_vars, client_vars, app_vars>>

\* ToolRegistry.clear()
Clear ==
    /\ tools' = clear(tools)
    /\ last_op' = [op |-> "clear"]
    /\ UNCHANGED <<loader_vars, factory_vars, client_vars, app_vars>>

\* ToolRegistry.reload(), also reached through AgentFactory.reload_tools()
Reload ==
    \E order \in Orders :
        LET pass == discover_tools(fs, sys_modules, order)
        IN  /\ listable
            /\ tools' = reload(tools, pass.found)
            /\ last_op' = [op |-> "reload", before |-> DictKeys(tools), raised |-> ""]
            /\ LogPass(pass)
            /\ UNCHANGED <<factory_vars, client_vars, app_vars>>

\* (mutant) a reload() whose pass raised puts the old entries back
reload_interrupted_restores(t) == t

\* the catalog after a reload() whose discover_tools() raised: clear() has
\* run, the loop over discovered.items() has not
reload_interrupted(t) == clear(t)

\* ToolRegistry.reload() when tools_dir.iterdir() raises: the exception
\* leaves discover_tools and reload
ReloadRaises ==
    /\ ~listable
    /\ tools' = reload_interrupted(tools)
    /\ last_op' = [op |-> "reload", before |-> DictKeys(tools),
                   raised |-> "FileNotFoundError"]
    /\ UNCHANGED <<loader_vars, factory_vars, client_vars, app_vars>>

\* the tools directory is removed or made unreadable, or put back
TouchToolsDir ==
    /\ listable' = ~listable
    /\ fs_changed' = TRUE
    /\ UNCHANGED <<discovered, load_errors, fs, sys_modules, pass_log>>
    /\ UNCHANGED <<registry_vars, factory_vars, client_vars, app_vars>>

\* AgentFactory._ensure_tools_loaded(), given the pass it runs when the
\* catalog is empty
ensure_tools_loaded(t, found) ==
    IF count_tools(t) = 0 THEN register_all(t, found) ELSE t

\* AgentFactory(): __init__ calls _ensure_tools_loaded
AgentFactoryInit ==
    \/ /\ count_tools(tools) = 0
       /\ listable
       /\ \E order \in Orders :
            LET pass == discover_tools(fs, sys_modules, order)
            IN  /\ tools' = ensure_tools_loaded(tools, pass.found)
                /\ LogPass(pass)
       /\ last_op' = [op |-> "AgentFactory", before |-> DictKeys(tools)]
       /\ UNCHANGED <<factory_vars, client_vars, app_vars>>
    \/ /\ count_tools(tools) /= 0
       /\ tools' = ensure_tools_loaded(tools, <<>>)
       /\ last_op' = [op |-> "AgentFactory", before |-> DictKeys(tools)]
       /\ UNCHANGED <<loader_vars, factory_vars, client_vars, app_vars>>

\* ToolLoader().discover_tools() on its own
DiscoverTools ==
    \E order \in Orders :
        /\ LogPass(discover_tools(fs, sys_modules, order))
        /\ UNCHANGED <<registry_vars, factory_vars, client_vars, app_vars>>

\* a tool file is added, removed, broken or repaired on disk
TouchFile(path, status) ==
    /\ fs[path] /= status
    /\ fs' = [fs EXCEPT ![path] = status]
    /\ fs_changed' = TRUE
    /\ UNCHANGED <<discovered, load_errors, listable, sys_modules, pass_log>>
    /\ UNCHANGED <<registry_vars, factory_vars, client_vars, app_vars>>

\* AgentFactory._discover_tools_for_agent(config), called by from_yaml
ResolveTools(cfg) ==
    /\ config' = cfg
    /\ tool_functions' = discover_tools_for_agent(tools, cfg)
    /\ last_op' = [op |-> "_discover_tools_for_agent"]
    /\ UNCHANGED <<tools, loader_vars, client_vars, app_vars>>

(***************************************************************************)
(* tools/_registry.py: ToolRegistry.__new__ and __init__.                  *)
(***************************************************************************)
\* cls._instance after __new__; made is the number of objects made so far
tool_registry_new(inst, made) == IF inst = None THEN Object(made + 1) ELSE inst

\* (mutant) __init__ without the _initialized test
tool_registry_init_always(t, done) == <<>>

\* ToolRegistry._tools after __init__; done is ToolRegistry._initialized
tool_registry_init(t, done) == IF ~done THEN <<>> ELSE t

\* the call ToolRegistry()
NewToolRegistry ==
    /\ instance' = tool_registry_new(instance, Cardinality(handles))
    /\ tools' = tool_registry_init(tools, initialized)
    /\ initialized' = TRUE
    /\ handles' = handles \cup {instance'}
    /\ last_op' = [op |-> "ToolRegistry"]
    /\ UNCHANGED <<loader_vars, factory_vars, client_vars>>
    /\ UNCHANGED <<view_vars, agent_vars, draft_vars, account_vars, runtime_vars>>

(***************************************************************************)
(* tools/_registry.py: the aggregate views.  A dict domain -> count is a   *)
(* sequence of [domain, count] in insertion order.                         *)
(***************************************************************************)
\* (mutant) the domains in the order the catalog first shows them
list_domains_first_seen(t) ==
    LET firsts == SelectSeq([i \in 1..Len(t) |-> i], LAMBDA i :
                      \A j \in 1..(i - 1) : t[j].metadata.domain /= t[i].metadata.domain)
    IN  [k \in 1..Len(firsts) |-> t[firsts[k]].metadata.domain]

\* sorted(set(tool["metadata"]["domain"] for tool in self._tools.values()))
list_domains(t) == sorted({t[i].metadata.domain : i \in 1..Len(t)})

\* count_tools(domain) with a domain given
count_tools_in_domain(t, domain) == Len(get_tools_by_domain(t, domain))

get_summary(t) ==
    [total_tools |-> Len(t),
     domains |-> list_domains(t),
     tools_per_domain |->
        [k \in 1..Len(list_domains(t)) |->
            [domain |-> list_domains(t)[k],
             count |-> count_tools_in_domain(t, list_domains(t)[k])]]]

\* ToolRegistry.get_summary(), also AgentFactory.get_registry_summary()
GetSummary ==
    /\ summary' = get_summary(tools)
    /\ last_op' = [op |-> "get_summary"]
    /\ UNCHANGED <<tools, all_tools, loader_vars, factory_vars, client_vars>>
    /\ UNCHANGED <<singleton_vars, agent_vars, draft_vars, account_vars, runtime_vars>>

\* what callers can hand to register_tool: the empty identifier and an
\* empty domain and name as well
RegisterIds == ManualIds \cup {""}
RegisterMetadata == ManualMetadata \cup {Metadata("", "", {})}

(***************************************************************************)
(* tools/_registry.py: list_all_tools and what a caller can do with the    *)
(* dict it returns.  dict.copy() makes a new dict that holds the same      *)
(* entry objects: an item of the returned dict is [id, function, metadata, *)
(* shared], shared saying that its entry is the very object the catalog    *)
(* holds under id.                                                         *)
(***************************************************************************)
\* return self._tools.copy()
list_all_tools(t) ==
    [i \in 1..Len(t) |-> [id |-> t[i].id, function |-> t[i].function,
                          metadata |-> t[i].metadata, shared |-> TRUE]]

\* entry[field] = value on an entry object, where field is "function", or
\* "domain" for entry["metadata"]["domain"]
modified(item, field, value) ==
    IF field = "function" THEN [item EXCEPT !.function = value]
    ELSE [item EXCEPT !.metadata = [@ EXCEPT !.domain = value]]

\* all_tools = registry.list_all_tools()
ListAllTools ==
    /\ all_tools' = [dict |-> list_all_tools(tools)]
    /\ last_op' = [op |-> "list_all_tools"]
    /\ UNCHANGED <<tools, summary, loader_vars, factory_vars, client_vars>>
    /\ UNCHANGED <<singleton_vars, agent_vars, draft_vars, account_vars, runtime_vars>>

\* the caller: all_tools[tool_id] = {"function": func, "metadata": metadata}
CallerSetsKey(tool_id, func, metadata) ==
    /\ all_tools /= None
    /\ all_tools' = [dict |-> DictSet(all_tools.dict, [id |-> tool_id, function |-> func,
                                        metadata |-> metadata, shared |-> FALSE])]
    /\ last_op' = [op |-> "caller", did |-> "set key"]
    /\ UNCHANGED <<tools, summary, loader_vars, factory_vars, client_vars>>
    /\ UNCHANGED <<singleton_vars, agent_vars, draft_vars, account_vars, runtime_vars>>

\* the caller: del all_tools[tool_id]
CallerDeletesKey(tool_id) ==
    /\ all_tools /= None
    /\ tool_id \in DictKeys(all_tools.dict)
    /\ all_tools' = [dict |-> SelectSeq(all_tools.dict, LAMBDA item : item.id /= tool_id)]
    /\ last_op' = [op |-> "caller", did |-> "delete key"]
    /\ UNCHANGED <<tools, summary, loader_vars, factory_vars, client_vars>>
    /\ UNCHANGED <<singleton_vars, agent_vars, draft_vars, account_vars, runtime_vars>>

\* the caller: all_tools[tool_id]["function"] = value, or
\* all_tools[tool_id]["metadata"]["domain"] = value.  The entry is one
\* object: the catalog sees the change when it holds that object.
CallerModifiesEntry(tool_id, field, value) ==
    /\ all_tools /= None
    /\ tool_id \in DictKeys(all_tools.dict)
    /\ all_tools' = [dict |-> [i \in 1..Len(all_tools.dict) |->
                        IF all_tools.dict[i].id = tool_id
                        THEN modified(all_tools.dict[i], field, value)
                        ELSE all_tools.dict[i]]]
    /\ tools' = [i \in 1..Len(tools) |->
                    IF /\ tools[i].id = tool_id
                       /\ \E k \in 1..Len(all_tools.dict) :
                              all_tools.dict[k].id = tool_id /\ all_tools.dict[k].shared
                    THEN modified(tools[i], field, value)
                    ELSE tools[i]]
    /\ last_op' = [op |-> "caller", did |-> "modify entry"]
    /\ UNCHANGED <<summary, loader_vars, factory_vars, client_vars>>
    /\ UNCHANGED <<singleton_vars, agent_vars, draft_vars, account_vars, runtime_vars>>

(***************************************************************************)
(* tools/drafts: draft_store.py, generate_draft.py, approve_draft.py.  A   *)
(* draft is [id, message_type, status, rejection_reason, created_at]; the  *)
(* recipient and the text are not modelled.  The identifier                *)
(* draft_<%Y%m%d_%H%M%S>_<n> is [second, n]: the clock second and the      *)
(* length of the list when the draft was added.                            *)
(***************************************************************************)
SecondsPerDay == 86400

\* f"draft_{datetime.now().strftime('%Y%m%d_%H%M%S')}_{len(drafts)}"
DraftId(t, n) == [second |-> t, n |-> n]

add_draft(ds, message_type, t) ==
    Append(ds, [id |-> DraftId(t, Len(ds)), message_type |-> message_type,
                status |-> "pending", rejection_reason |-> "", created_at |-> t])

\* the first draft with that id, or None
get_draft(ds, draft_id) ==
    IF \E i \in 1..Len(ds) : ds[i].id = draft_id
    THEN ds[CHOOSE i \in 1..Len(ds) :
                /\ ds[i].id = draft_id
                /\ \A j \in 1..(i - 1) : ds[j].id /= draft_id]
    ELSE None

\* update_draft(draft_id, **changes): the first draft with that id gets
\* the fields of changes
update_draft(ds, draft_id, changes) ==
    [i \in 1..Len(ds) |->
        IF ds[i].id = draft_id /\ \A j \in 1..(i - 1) : ds[j].id /= draft_id
        THEN [field \in DOMAIN ds[i] |->
                IF field \in DOMAIN changes THEN changes[field] ELSE ds[i][field]]
        ELSE ds[i]]

\* approve_draft(draft_id); send says whether the send tool returns its
\* success text ("ok"), returns its "Failed to send" text ("error_text"),
\* or its import or call raises.  Gives the drafts file, the reply, and whether
\* the message was handed to the send tool.
approve_draft(ds, draft_id, send) ==
    LET draft == get_draft(ds, draft_id)
    IN  IF draft = None THEN [drafts |-> ds, reply |-> "Draft not found", sent |-> FALSE]
        ELSE IF draft.status = "sent"
        THEN [drafts |-> ds, reply |-> "Draft already sent", sent |-> FALSE]
        ELSE IF draft.message_type \notin {"email", "whatsapp"}
        THEN [drafts |-> ds, reply |-> "Unknown message type", sent |-> FALSE]
        ELSE IF send = "raises"
        THEN [drafts |-> ds, reply |-> "Failed to send", sent |-> FALSE]
        ELSE [drafts |-> update_draft(ds, draft_id, [status |-> "sent"]),
              reply |-> "Draft Approved and Sent Successfully", sent |-> TRUE]

\* delete_draft(draft_id): every draft with that id is dropped
delete_draft(ds, draft_id) == SelectSeq(ds, LAMBDA draft : draft.id /= draft_id)

\* clear_old_drafts(days) at time t: keeps what is recent or still pending
clear_old_drafts(ds, days, t) ==
    SelectSeq(ds, LAMBDA draft :
        draft.created_at > t - days * SecondsPerDay \/ draft.status = "pending")

\* reject_draft(draft_id, reason)
reject_draft(ds, draft_id, reason) ==
    LET draft == get_draft(ds, draft_id)
    IN  IF draft = None THEN [drafts |-> ds, reply |-> "Draft not found"]
        ELSE [drafts |-> update_draft(ds, draft_id,
                            [status |-> "rejected",
                             rejection_reason |-> IF reason /= "" THEN reason
                                                  ELSE draft.rejection_reason]),
              reply |-> "Draft Rejected Successfully"]

\* the identifiers a caller can name: those in the file and one that is not
DraftIds(ds) == {ds[i].id : i \in 1..Len(ds)} \cup {DraftId(0, MaxDrafts)}

\* the tool generate_draft_reply(message_type, ...)
GenerateDraftReply(message_type) ==
    /\ Len(drafts) < MaxDrafts
    /\ drafts' = add_draft(drafts, message_type, now)
    /\ reply' = "Draft Generated Successfully"
    /\ last_op' = [op |-> "generate_draft_reply", draft_id |-> DraftId(now, Len(drafts))]
    /\ UNCHANGED <<outbox, rejected>>
    /\ UNCHANGED <<tools, loader_vars, factory_vars, client_vars>>
    /\ UNCHANGED <<singleton_vars, view_vars, agent_vars, account_vars, runtime_vars>>

\* the tool approve_draft(draft_id)
ApproveDraft(draft_id, send) ==
    /\ Len(outbox) < MaxSends
    /\ LET done == approve_draft(drafts, draft_id, send)
       IN  /\ drafts' = done.drafts
           /\ reply' = done.reply
           /\ outbox' = IF done.sent THEN Append(outbox, draft_id) ELSE outbox
    /\ last_op' = [op |-> "approve_draft", draft_id |-> draft_id, send |-> send]
    /\ UNCHANGED rejected
    /\ UNCHANGED <<tools, loader_vars, factory_vars, client_vars>>
    /\ UNCHANGED <<singleton_vars, view_vars, agent_vars, account_vars, runtime_vars>>

\* the tool reject_draft(draft_id, reason)
RejectDraft(draft_id, reason) ==
    /\ LET done == reject_draft(drafts, draft_id, reason)
       IN  /\ drafts' = done.drafts
           /\ reply' = done.reply
           /\ rejected' = IF done.reply = "Draft Rejected Successfully"
                          THEN rejected \cup {draft_id} ELSE rejected
    /\ last_op' = [op |-> "reject_draft", draft_id |-> draft_id]
    /\ UNCHANGED outbox
    /\ UNCHANGED <<tools, loader_vars, factory_vars, client_vars>>
    /\ UNCHANGED <<singleton_vars, view_vars, agent_vars, account_vars, runtime_vars>>

\* DraftStore.update_draft(draft_id, status=status)
UpdateDraft(draft_id, status) ==
    /\ drafts' = update_draft(drafts, draft_id, [status |-> status])
    /\ last_op' = [op |-> "update_draft", draft_id |-> draft_id]
    /\ UNCHANGED <<outbox, rejected, reply>>
    /\ UNCHANGED <<tools, loader_vars, factory_vars, client_vars>>
    /\ UNCHANGED <<singleton_vars, view_vars, agent_vars, account_vars, runtime_vars>>

\* DraftStore.delete_draft(draft_id)
DeleteDraft(draft_id) ==
    /\ drafts' = delete_draft(drafts, draft_id)
    /\ last_op' = [op |-> "delete_draft", draft_id |-> draft_id]
    /\ UNCHANGED <<outbox, rejected, reply>>
    /\ UNCHANGED <<tools, loader_vars, factory_vars, client_vars>>
    /\ UNCHANGED <<singleton_vars, view_vars, agent_vars, account_vars, runtime_vars>>

\* DraftStore.clear_old_drafts(days)
ClearOldDrafts(days) ==
    /\ drafts' = clear_old_drafts(drafts, days, now)
    /\ last_op' = [op |-> "clear_old_drafts", days |-> days]
    /\ UNCHANGED <<outbox, rejected, reply>>
    /\ UNCHANGED <<tools, loader_vars, factory_vars, client_vars>>
    /\ UNCHANGED <<singleton_vars, view_vars, agent_vars, account_vars, runtime_vars>>

\* the clock moves on by a second (d = 1) or by a day (d = SecondsPerDay)
Tick(d) ==
    /\ d = 1 => now % SecondsPerDay < MaxSeconds
    /\ d = SecondsPerDay => now \div SecondsPerDay < MaxDays
    /\ now' = now + d
    /\ UNCHANGED <<registry_vars, loader_vars, factory_vars, client_vars>>
    /\ UNCHANGED <<singleton_vars, view_vars, agent_vars, draft_vars, account_vars, threads, func_attrs>>

(***************************************************************************)
(* tools/email/account_manager.py.  An entry of the EMAIL_ACCOUNTS array   *)
(* is [keys, id, account_id]: the keys the JSON object has, and the values *)
(* under "id" and "account_id" ("" when the key is missing).  The          *)
(* environment is [parses, entries, DEFAULT_EMAIL_ACCOUNT,                 *)
(* gmail_configured]; "" stands for an unset variable and for None.        *)
(***************************************************************************)
\* EmailAccount(**config): account_id, provider and email are required
\* parameters, every other key lands in **kwargs
EmailAccount(entry) ==
    IF {"account_id", "provider", "email"} \subseteq entry.keys
    THEN [ok |-> TRUE,
          account |-> [account_id |-> entry.account_id,
                       config |-> entry.keys \ {"account_id", "provider", "email"}]]
    ELSE Raised("TypeError", "__init__() missing required positional argument")

\* the loop over the entries of _load_accounts; mgr = [accounts, default_account_id]
RECURSIVE load_configs(_, _)
load_configs(mgr, accounts_config) ==
    IF accounts_config = <<>> THEN mgr
    ELSE LET entry == Head(accounts_config)
             account_id == IF "id" \in entry.keys THEN entry.id ELSE ""
             made == EmailAccount(entry)
         IN  IF account_id = "" THEN load_configs(mgr, Tail(accounts_config))
             ELSE IF made.ok
             THEN load_configs(
                     [accounts |-> DictSet(mgr.accounts,
                                           [id |-> account_id, account |-> made.account]),
                      default_account_id |-> IF mgr.default_account_id = ""
                                             THEN account_id
                                             ELSE mgr.default_account_id],
                     Tail(accounts_config))
             ELSE load_configs(mgr, Tail(accounts_config))

\* _try_create_default_gmail_account
try_create_default_gmail_account(mgr, e) ==
    IF e.gmail_configured
    THEN [accounts |-> DictSet(mgr.accounts,
                               [id |-> "default",
                                account |-> [account_id |-> "default", config |-> {}]]),
          default_account_id |-> "default"]
    ELSE mgr

\* _load_accounts on accounts = {} and default_account_id = None
load_accounts(e) ==
    LET loaded == load_configs([accounts |-> <<>>, default_account_id |-> ""],
                               IF e.parses THEN e.entries ELSE <<>>)
        filled == IF loaded.accounts = <<>>
                  THEN try_create_default_gmail_account(loaded, e)
                  ELSE loaded
    IN  IF /\ e.DEFAULT_EMAIL_ACCOUNT /= ""
           /\ e.DEFAULT_EMAIL_ACCOUNT \in DictKeys(filled.accounts)
        THEN [filled EXCEPT !.default_account_id = e.DEFAULT_EMAIL_ACCOUNT]
        ELSE filled

\* get_account(account_id); account_id = "" is the call without an argument
get_account(mgr, account_id) ==
    LET wanted == IF account_id = "" THEN mgr.default_account_id ELSE account_id
    IN  IF wanted = "" THEN Raised("ValueError", "No email accounts configured")
        ELSE IF wanted \notin DictKeys(mgr.accounts)
        THEN Raised("ValueError", "Account not found")
        ELSE [ok |-> TRUE,
              account |-> mgr.accounts[CHOOSE i \in 1..Len(mgr.accounts) :
                                          mgr.accounts[i].id = wanted].account]

\* add_account(**kwargs); gives the manager and what was raised
add_account(mgr, entry) ==
    LET account_id == IF "id" \in entry.keys THEN entry.id ELSE ""
        made == EmailAccount(entry)
    IN  IF account_id = ""
        THEN [mgr |-> mgr, raised |-> "ValueError"]
        ELSE IF account_id \in DictKeys(mgr.accounts)
        THEN [mgr |-> mgr, raised |-> "ValueError"]
        ELSE IF ~made.ok
        THEN [mgr |-> mgr, raised |-> "TypeError"]
        ELSE [mgr |-> [accounts |-> DictSet(mgr.accounts,
                                            [id |-> account_id, account |-> made.account]),
                       default_account_id |-> IF mgr.default_account_id = ""
                                              THEN account_id
                                              ELSE mgr.default_account_id],
              raised |-> ""]

\* (mutant) remove_account without the update of the default
remove_account_keeps_default(mgr, account_id) ==
    IF account_id \notin DictKeys(mgr.accounts)
    THEN [mgr |-> mgr, raised |-> "ValueError"]
    ELSE [mgr |-> [mgr EXCEPT !.accounts =
                       SelectSeq(mgr.accounts, LAMBDA item : item.id /= account_id)],
          raised |-> ""]

\* remove_account(account_id)
remove_account(mgr, account_id) ==
    LET rest == SelectSeq(mgr.accounts, LAMBDA item : item.id /= account_id)
    IN  IF account_id \notin DictKeys(mgr.accounts)
        THEN [mgr |-> mgr, raised |-> "ValueError"]
        ELSE [mgr |-> [accounts |-> rest,
                       default_account_id |->
                           IF mgr.default_account_id = account_id
                           THEN (IF rest = <<>> THEN "" ELSE rest[1].id)
                           ELSE mgr.default_account_id],
              raised |-> ""]

\* set_default_account(account_id)
set_default_account(mgr, account_id) ==
    IF account_id \notin DictKeys(mgr.accounts)
    THEN [mgr |-> mgr, raised |-> "ValueError"]
    ELSE [mgr |-> [mgr EXCEPT !.default_account_id = account_id], raised |-> ""]

\* the entries of the model: the two of the module docstring, one that
\* carries account_id as well, one without id, one without email
DocumentedKeys == {"id", "provider", "credentials", "token", "email"}

AccountEntries ==
    { [keys |-> DocumentedKeys, id |-> "work", account_id |-> ""],
      [keys |-> DocumentedKeys, id |-> "personal", account_id |-> ""],
      [keys |-> DocumentedKeys \cup {"account_id"}, id |-> "work", account_id |-> "work"],
      [keys |-> {"provider", "email"}, id |-> "", account_id |-> ""],
      [keys |-> {"id", "provider"}, id |-> "personal", account_id |-> ""] }

\* parses = FALSE: EMAIL_ACCOUNTS is not JSON
EmailEnvs ==
    [parses : {TRUE},
     entries : Seqs(AccountEntries, MaxAccounts),
     DEFAULT_EMAIL_ACCOUNT : {"", "work", "personal", "ghost"},
     gmail_configured : BOOLEAN]
    \cup
    [parses : {FALSE},
     entries : {<<>>},
     DEFAULT_EMAIL_ACCOUNT : {"", "work", "personal", "ghost"},
     gmail_configured : BOOLEAN]

\* the call EmailAccountManager(), also get_account_manager(), in the
\* environment e: only the first call loads
NewEmailAccountManager(e) ==
    /\ manager' = IF manager = None THEN load_accounts(e) ELSE manager
    /\ email_env' = IF manager = None THEN e ELSE email_env
    /\ last_op' = [op |-> "EmailAccountManager"]
    /\ UNCHANGED <<tools, loader_vars, factory_vars, client_vars>>
    /\ UNCHANGED <<singleton_vars, view_vars, agent_vars, draft_vars, runtime_vars>>

\* EmailAccountManager.reload() in the environment e
ReloadAccounts(e) ==
    /\ manager /= None
    /\ manager' = load_accounts(e)
    /\ email_env' = e
    /\ last_op' = [op |-> "EmailAccountManager.reload"]
    /\ UNCHANGED <<tools, loader_vars, factory_vars, client_vars>>
    /\ UNCHANGED <<singleton_vars, view_vars, agent_vars, draft_vars, runtime_vars>>

\* what callers hand to add_account: work and personal with every key
\* EmailAccount needs, personal as documented, and an entry without id
AddableEntries ==
    { [keys |-> DocumentedKeys \cup {"account_id"}, id |-> "work", account_id |-> "work"],
      [keys |-> DocumentedKeys \cup {"account_id"}, id |-> "personal",
       account_id |-> "personal"],
      [keys |-> DocumentedKeys, id |-> "personal", account_id |-> ""],
      [keys |-> {"provider", "email"}, id |-> "", account_id |-> ""] }

\* a method of the manager was called and gave done = [mgr, raised]
ManagerCall(op, account_id, done) ==
    /\ manager /= None
    /\ manager' = done.mgr
    /\ last_op' = [op |-> op, account_id |-> account_id, raised |-> done.raised]
    /\ UNCHANGED <<tools, email_env, loader_vars, factory_vars, client_vars>>
    /\ UNCHANGED <<singleton_vars, view_vars, agent_vars, draft_vars, runtime_vars>>

\* EmailAccountManager.add_account(**entry)
AddAccount(entry) ==
    /\ manager /= None
    /\ Len(manager.accounts) < MaxAccounts
    /\ ManagerCall("add_account", entry.id, add_account(manager, entry))

\* EmailAccountManager.remove_account(account_id)
RemoveAccount(account_id) ==
    /\ manager /= None
    /\ ManagerCall("remove_account", account_id, remove_account(manager, account_id))

\* EmailAccountManager.set_default_account(account_id)
SetDefaultAccount(account_id) ==
    /\ manager /= None
    /\ ManagerCall("set_default_account", account_id,
                   set_default_account(manager, account_id))

(***************************************************************************)
(* Threads that share the catalog.  No method of ToolRegistry takes a      *)
(* lock; one statement on the dict (a store, len(), clear(), one step of   *)
(* an iteration) is atomic, and threads interleave between statements.     *)
(***************************************************************************)
\* the arguments of the calls the threads make
ThreadCalls ==
    [tool_id : ManualIds \cup {"stock.get_stock_price"},
     func : ManualFuncs,
     metadata : ManualMetadata]

\* the number of stores into the catalog the threads have made so far
Stores(thr) ==
    Cardinality({th \in DOMAIN thr : thr[th].op = "register_tool" /\ thr[th].wrote > 0})

\* two threads are started, each with one register_tool call
StartRegisterThreads(a, b) ==
    /\ DOMAIN threads = {}
    /\ threads' = [t1 |-> [op |-> "register_tool", pc |-> "called", args |-> a, wrote |-> 0],
                   t2 |-> [op |-> "register_tool", pc |-> "called", args |-> b, wrote |-> 0]]
    /\ UNCHANGED <<registry_vars, loader_vars, factory_vars, client_vars>>
    /\ UNCHANGED <<singleton_vars, view_vars, agent_vars, draft_vars, account_vars, now, func_attrs>>

\* register_tool in thread th: self._tools[tool_id] = {...}
StoreEntry(th) ==
    /\ th \in DOMAIN threads
    /\ threads[th].op = "register_tool"
    /\ threads[th].pc = "called"
    /\ tools' = register_tool(tools, threads[th].args.tool_id,
                              threads[th].args.func, threads[th].args.metadata)
    /\ last_op' = [op |-> "register_tool", tool_id |-> threads[th].args.tool_id,
                   func |-> threads[th].args.func, metadata |-> threads[th].args.metadata]
    /\ threads' = [threads EXCEPT ![th].pc = "stored", ![th].wrote = Stores(threads) + 1]
    /\ UNCHANGED <<loader_vars, factory_vars, client_vars>>
    /\ UNCHANGED <<singleton_vars, view_vars, agent_vars, draft_vars, account_vars, now, func_attrs>>

\* register_tool in thread th: logger.debug(...) and return
ReturnFromRegister(th) ==
    /\ th \in DOMAIN threads
    /\ threads[th].op = "register_tool"
    /\ threads[th].pc = "stored"
    /\ threads' = [threads EXCEPT ![th].pc = "returned"]
    /\ UNCHANGED <<registry_vars, loader_vars, factory_vars, client_vars>>
    /\ UNCHANGED <<singleton_vars, view_vars, agent_vars, draft_vars, account_vars, now, func_attrs>>

\* the lookups a reader thread makes
Lookups ==
    {[op |-> "count_tools", arg |-> None],
     [op |-> "get_tools_by_domain", arg |-> [domain |-> "weather"]],
     [op |-> "get_tools_by_domain", arg |-> [domain |-> "custom"]],
     [op |-> "get_tools_by_tags", arg |-> [tags |-> <<"forecast">>]]}

\* the condition of the list comprehension of a lookup, for one item
lookup_keeps(lookup, item) ==
    IF lookup.op = "get_tools_by_domain"
    THEN item.metadata.domain = lookup.arg.domain
    ELSE \E i \in 1..Len(lookup.arg.tags) : lookup.arg.tags[i] \in item.metadata.tags

\* where reload() is in the thread that runs it
ReloadStage(thr) == [pc |-> thr["rl"].pc, k |-> thr["rl"].k]

\* one thread calls reload() while another calls a lookup
StartLookupThreads(lookup) ==
    /\ DOMAIN threads = {}
    /\ threads' = [rl |-> [op |-> "reload", pc |-> "called", before |-> tools,
                           found |-> <<>>, k |-> 0],
                   rd |-> [op |-> lookup.op, arg |-> lookup.arg, pc |-> "called",
                           used |-> 0, pos |-> 0, acc |-> <<>>, result |-> None,
                           seen |-> None]]
    /\ UNCHANGED <<registry_vars, loader_vars, factory_vars, client_vars>>
    /\ UNCHANGED <<singleton_vars, view_vars, agent_vars, draft_vars, account_vars, now, func_attrs>>

\* reload(): self.clear()
ReloadClears ==
    /\ "rl" \in DOMAIN threads
    /\ threads["rl"].pc = "called"
    /\ tools' = clear(tools)
    /\ last_op' = [op |-> "clear"]
    /\ threads' = [threads EXCEPT !["rl"].pc = "cleared"]
    /\ UNCHANGED <<loader_vars, factory_vars, client_vars>>
    /\ UNCHANGED <<singleton_vars, view_vars, agent_vars, draft_vars, account_vars, now, func_attrs>>

\* reload(): discovered = loader.discover_tools()
ReloadDiscovers ==
    /\ "rl" \in DOMAIN threads
    /\ threads["rl"].pc = "cleared"
    /\ \E order \in Orders :
         LET pass == discover_tools(fs, sys_modules, order)
         IN  /\ threads' = [threads EXCEPT !["rl"].pc = "registering",
                                           !["rl"].found = pass.found]
             /\ LogPass(pass)
    /\ UNCHANGED <<registry_vars, factory_vars, client_vars>>
    /\ UNCHANGED <<singleton_vars, view_vars, agent_vars, draft_vars, account_vars, now, func_attrs>>

\* reload(): one turn of the loop over discovered.items(), or its end
ReloadRegisters ==
    /\ "rl" \in DOMAIN threads
    /\ threads["rl"].pc = "registering"
    /\ LET rl == threads["rl"]
       IN  IF rl.k < Len(rl.found)
           THEN /\ tools' = register_tool(tools, rl.found[rl.k + 1].id,
                                          rl.found[rl.k + 1].function,
                                          rl.found[rl.k + 1].metadata)
                /\ last_op' = [op |-> "register_tool", tool_id |-> rl.found[rl.k + 1].id,
                               func |-> rl.found[rl.k + 1].function,
                               metadata |-> rl.found[rl.k + 1].metadata]
                /\ threads' = [threads EXCEPT !["rl"].k = rl.k + 1]
           ELSE /\ threads' = [threads EXCEPT !["rl"].pc = "returned"]
                /\ last_op' = [op |-> "reload", before |-> DictKeys(rl.before)]
                /\ UNCHANGED tools
    /\ UNCHANGED <<loader_vars, factory_vars, client_vars>>
    /\ UNCHANGED <<singleton_vars, view_vars, agent_vars, draft_vars, account_vars, now, func_attrs>>

\* count_tools(): len(self._tools)
ReaderCounts ==
    /\ "rd" \in DOMAIN threads
    /\ threads["rd"].op = "count_tools"
    /\ threads["rd"].pc = "called"
    /\ threads' = [threads EXCEPT !["rd"].pc = "returned",
                                  !["rd"].result = [value |-> count_tools(tools)],
                                  !["rd"].seen = ReloadStage(threads)]
    /\ UNCHANGED <<registry_vars, loader_vars, factory_vars, client_vars>>
    /\ UNCHANGED <<singleton_vars, view_vars, agent_vars, draft_vars, account_vars, now, func_attrs>>

\* get_tools_by_domain / get_tools_by_tags: the list comprehension takes an
\* iterator over self._tools
ReaderStartsIteration ==
    /\ "rd" \in DOMAIN threads
    /\ threads["rd"].op \in {"get_tools_by_domain", "get_tools_by_tags"}
    /\ threads["rd"].pc = "called"
    /\ threads' = [threads EXCEPT !["rd"].pc = "iterating",
                                  !["rd"].used = Len(tools),
                                  !["rd"].seen = ReloadStage(threads)]
    /\ UNCHANGED <<registry_vars, loader_vars, factory_vars, client_vars>>
    /\ UNCHANGED <<singleton_vars, view_vars, agent_vars, draft_vars, account_vars, now, func_attrs>>

\* one next() of the dict iterator: RuntimeError("dictionary changed size
\* during iteration") when the size is not the one the iterator started
\* with, the end of the comprehension after the last item, else one item
ReaderIterates ==
    /\ "rd" \in DOMAIN threads
    /\ threads["rd"].pc = "iterating"
    /\ LET rd == threads["rd"]
       IN  threads' =
             IF Len(tools) /= rd.used
             THEN [threads EXCEPT !["rd"].pc = "raised",
                                  !["rd"].result = [raised |-> "RuntimeError"]]
             ELSE IF rd.pos >= Len(tools)
             THEN [threads EXCEPT !["rd"].pc = "returned",
                                  !["rd"].result = [value |-> rd.acc]]
             ELSE [threads EXCEPT
                      !["rd"].pos = rd.pos + 1,
                      !["rd"].acc = IF lookup_keeps(rd, tools[rd.pos + 1])
                                    THEN Append(rd.acc, ToolOf(tools[rd.pos + 1]))
                                    ELSE rd.acc]
    /\ UNCHANGED <<registry_vars, loader_vars, factory_vars, client_vars>>
    /\ UNCHANGED <<singleton_vars, view_vars, agent_vars, draft_vars, account_vars, now, func_attrs>>

InitRegistry ==
    /\ tools = <<>>
    /\ last_op = [op |-> "init"]

\* the tools directory as the repository ships it: every tool file loads
AllFilesLoad == [path \in ToolFiles |-> "ok"]

InitLoader ==
    /\ discovered = <<>>
    /\ load_errors = {}
    /\ fs \in [ToolFiles -> FileStatus]
    /\ fs_changed = FALSE
    /\ listable = TRUE
    /\ sys_modules = {}
    /\ pass_log = <<>>

InitFactory ==
    /\ config = None
    /\ tool_functions = <<>>

InitClient ==
    /\ model_config = None
    /\ env = None
    /\ providers = <<>>
    /\ idx = 0
    /\ last_error = None
    /\ attempts = <<>>
    /\ pc = "idle"
    /\ outcome = None

\* everything outside the catalog, the loader and the chat client at the
\* start of a process: no agent discovered, an empty drafts file, no account
\* manager.  inst is ToolRegistry._instance: None before the first
\* ToolRegistry() call, the catalog object after it.
InitApp(inst) ==
    /\ instance = inst
    /\ initialized = (inst /= None)
    /\ handles = (IF inst = None THEN {} ELSE {inst})
    /\ all_tools = None
    /\ summary = None
    /\ agents_dir = None
    /\ agents = <<>>
    /\ agent_failures = {}
    /\ agent_tools_map = <<>>
    /\ drafts = <<>>
    /\ outbox = <<>>
    /\ rejected = {}
    /\ reply = None
    /\ email_env = None
    /\ manager = None
    /\ threads = <<>>
    /\ now = 0
    /\ func_attrs = [func \in Callables |-> Missing]

\* a fresh process over any state of the tools directory
Init == InitRegistry /\ InitLoader /\ InitFactory /\ InitClient /\ InitApp(Object(1))

\* The catalog: registration by hand, clear, reload, factory construction.
Next ==
    \/ \E tool_id \in ManualIds, func \in ManualFuncs, metadata \in ManualMetadata :
            RegisterTool(tool_id, func, metadata)
    \/ Clear
    \/ Reload
    \/ AgentFactoryInit

Spec == Init /\ [][Next]_vars

\* The loader: discovery passes over a tools directory that changes.
NextLoader ==
    \/ DiscoverTools
    \/ \E path \in ToolFiles, status \in FileStatus : TouchFile(path, status)

SpecLoader == Init /\ [][NextLoader]_vars

\* Agent assembly: the catalog is filled by factory construction and by
\* hand, then an agent resolves its tools from it (one from_yaml call per
\* behaviour: the resolution reads the catalog and changes nothing in it).
InitShipped ==
    InitRegistry /\ InitLoader /\ fs = AllFilesLoad /\ InitFactory /\ InitClient /\ InitApp(Object(1))

NextFactory ==
    /\ config = None
    /\ \/ \E tool_id \in ManualIds, func \in ManualFuncs, metadata \in ManualMetadata :
             RegisterTool(tool_id, func, metadata)
       \/ AgentFactoryInit
       \/ \E cfg \in Configs : ResolveTools(cfg)

SpecFactory == InitShipped /\ [][NextFactory]_vars

\* Chat client construction for any model config and environment.
InitAnyClient ==
    /\ InitRegistry /\ InitLoader /\ fs = AllFilesLoad /\ InitFactory /\ InitApp(Object(1))
    /\ model_config \in ModelConfigs
    /\ env \in Envs
    /\ providers = <<>>
    /\ idx = 0
    /\ last_error = None
    /\ attempts = <<>>
    /\ pc = "idle"
    /\ outcome = None

NextClient == BuildChatClient \/ TryProvider \/ AllProvidersFailed

SpecClient == InitAnyClient /\ [][NextClient]_vars

\* Hot reload: reload() calls while the tools directory changes.
NextReload ==
    \/ Reload
    \/ \E path \in ToolFiles, status \in FileStatus : TouchFile(path, status)

SpecReload == Init /\ [][NextReload]_vars

\* Hot reload while the tools directory itself comes and goes.
NextBroken ==
    \/ \E tool_id \in ManualIds, func \in ManualFuncs, metadata \in ManualMetadata :
            RegisterTool(tool_id, func, metadata)
    \/ Reload
    \/ ReloadRaises
    \/ TouchToolsDir

SpecBroken == InitShipped /\ [][NextBroken]_vars

\* Agent discovery: a factory is constructed, then discover_all_agents runs
\* once over any configs directory, in any environment.
InitAnyAgents ==
    /\ InitRegistry /\ InitLoader /\ fs = AllFilesLoad /\ InitFactory /\ InitApp(Object(1))
    /\ model_config = None
    /\ env \in Envs
    /\ providers = <<>>
    /\ idx = 0
    /\ last_error = None
    /\ attempts = <<>>
    /\ pc = "idle"
    /\ outcome = None

NextAgents ==
    \/ last_op.op = "init" /\ AgentFactoryInit
    \/ /\ agents_dir = None /\ agent_failures = {} /\ agent_tools_map = <<>>
       /\ \E dir \in AgentsDirs : DiscoverAllAgents(dir)

SpecAgents == InitAnyAgents /\ [][NextAgents]_vars

\* A caller of list_all_tools: the catalog is filled, the caller takes the
\* dict and then changes it once.
NextCopy ==
    \/ /\ all_tools = None
       /\ \/ \E tool_id \in ManualIds, func \in ManualFuncs, metadata \in ManualMetadata :
                RegisterTool(tool_id, func, metadata)
          \/ AgentFactoryInit
          \/ ListAllTools
    \/ /\ last_op.op = "list_all_tools"
       /\ \/ \E tool_id \in ManualIds, func \in ManualFuncs, metadata \in ManualMetadata :
                CallerSetsKey(tool_id, func, metadata)
          \/ \E tool_id \in DictKeys(all_tools.dict) : CallerDeletesKey(tool_id)
          \/ \E tool_id \in DictKeys(all_tools.dict), func \in ManualFuncs :
                CallerModifiesEntry(tool_id, "function", func)
          \/ \E tool_id \in DictKeys(all_tools.dict), domain \in {"weather", "custom"} :
                CallerModifiesEntry(tool_id, "domain", domain)

SpecCopy == InitShipped /\ [][NextCopy]_vars

\* The life of the catalog object from the start of the process: the
\* methods are called on what ToolRegistry() returned.
InitProcess ==
    InitRegistry /\ InitLoader /\ fs = AllFilesLoad /\ InitFactory /\ InitClient /\ InitApp(None)

NextSingleton ==
    \/ NewToolRegistry
    \/ /\ instance /= None
       /\ \/ \E tool_id \in ManualIds, func \in ManualFuncs, metadata \in ManualMetadata :
                RegisterTool(tool_id, func, metadata)
          \/ Clear
          \/ Reload
          \/ AgentFactoryInit

SpecSingleton == InitProcess /\ [][NextSingleton]_vars

\* The catalog under everything register_tool accepts, and its summary.
NextCatalog ==
    \/ /\ summary = None
       /\ \/ \E tool_id \in RegisterIds, metadata \in RegisterMetadata :
                RegisterTool(tool_id, "echo", metadata)
          \/ Clear
          \/ AgentFactoryInit
    \/ GetSummary

SpecCatalog == InitShipped /\ [][NextCatalog]_vars

\* The draft tools, called in any order on any draft id.
NextDrafts ==
    \/ \E message_type \in {"email", "whatsapp", "sms"} : GenerateDraftReply(message_type)
    \/ \E draft_id \in DraftIds(drafts), send \in {"ok", "error_text", "raises"} :
            ApproveDraft(draft_id, send)
    \/ \E draft_id \in DraftIds(drafts), reason \in {"", "not needed"} :
            RejectDraft(draft_id, reason)

SpecDrafts == InitShipped /\ [][NextDrafts]_vars

\* The draft store under its own methods while the clock runs.
NextStore ==
    \/ GenerateDraftReply("email")
    \/ \E draft_id \in DraftIds(drafts), status \in {"approved", "sent"} :
            UpdateDraft(draft_id, status)
    \/ \E draft_id \in DraftIds(drafts) : DeleteDraft(draft_id)
    \/ \E days \in {0, 1} : ClearOldDrafts(days)
    \/ \E d \in {1, SecondsPerDay} : Tick(d)

SpecStore == InitShipped /\ [][NextStore]_vars

\* The account manager, constructed and reloaded in any environment.
NextAccounts ==
    \/ \E e \in EmailEnvs : NewEmailAccountManager(e)
    \/ \E e \in EmailEnvs : ReloadAccounts(e)

SpecAccounts == InitShipped /\ [][NextAccounts]_vars

\* The account manager under its runtime methods; it is constructed and
\* reloaded in environments with at most one EMAIL_ACCOUNTS entry.
NextManager ==
    \/ \E e \in {x \in EmailEnvs : Len(x.entries) <= 1} : NewEmailAccountManager(e)
    \/ \E e \in {x \in EmailEnvs : Len(x.entries) <= 1} : ReloadAccounts(e)
    \/ \E entry \in AddableEntries : AddAccount(entry)
    \/ \E account_id \in {"work", "personal", "default", "ghost"} :
            RemoveAccount(account_id)
    \/ \E account_id \in {"work", "personal", "default", "ghost"} :
            SetDefaultAccount(account_id)

SpecManager == InitShipped /\ [][NextManager]_vars

\* Callables are marked, again and again, with any arguments.
NextMarking ==
    \E func \in Callables, domain \in {"weather", "stock"}, name \in {"", "forecast"},
       tags \in {{}, {"forecast"}} :
        Mark(func, domain, name, tags)

SpecMarking == InitShipped /\ [][NextMarking]_vars

\* Two threads register into a catalog that was filled by hand.
NextRace ==
    \/ /\ DOMAIN threads = {}
       /\ \/ \E tool_id \in ManualIds, func \in ManualFuncs, metadata \in ManualMetadata :
                RegisterTool(tool_id, func, metadata)
          \/ \E a \in ThreadCalls, b \in ThreadCalls : StartRegisterThreads(a, b)
    \/ \E th \in {"t1", "t2"} : StoreEntry(th)
    \/ \E th \in {"t1", "t2"} : ReturnFromRegister(th)

SpecRace == InitShipped /\ [][NextRace]_vars

\* reload() in one thread and a lookup in another, over a catalog that was
\* filled by hand or by factory construction.
NextLookup ==
    \/ /\ DOMAIN threads = {}
       /\ \/ \E tool_id \in ManualIds, func \in ManualFuncs, metadata \in ManualMetadata :
                RegisterTool(tool_id, func, metadata)
          \/ AgentFactoryInit
          \/ \E lookup \in Lookups : StartLookupThreads(lookup)
    \/ ReloadClears
    \/ ReloadDiscovers
    \/ ReloadRegisters
    \/ ReaderCounts
    \/ ReaderStartsIteration
    \/ ReaderIterates

SpecLookup == InitShipped /\ [][NextLookup]_vars

(***************************************************************************)
(* Properties of the catalog (Spec).                                       *)
(***************************************************************************)
Domains == {"weather", "stock", "custom", "internal", ""}
Tags == {"forecast", "realtime", "unused"}

\* how often x occurs in the list s
Count(s, x) == Cardinality({i \in 1..Len(s) : s[i] = x})

\* the positions of the catalog whose entry has domain d
InDomain(d) == {i \in 1..Len(tools) : tools[i].metadata.domain = d}

\* C1: get_tools_by_domain(d) returns exactly the entries whose metadata
\* domain is d, each as often as the catalog holds it and none of another
\* domain; for a domain without entries it returns the empty list.
C1_DomainLookupExact ==
    \A d \in Domains :
        LET got == get_tools_by_domain(tools, d)
        IN  /\ Len(got) = Cardinality(InDomain(d))
            /\ \A i \in 1..Len(tools) :
                   Count(got, ToolOf(tools[i])) =
                       Cardinality({j \in InDomain(d) : ToolOf(tools[j]) = ToolOf(tools[i])})
            /\ \A k \in 1..Len(got) : got[k].metadata.domain = d
            /\ InDomain(d) = {} => got = <<>>

\* C1 witness: two weather entries, one of another domain is left out, and
\* a callable marked for weather is registered under another domain
C1_Witness ==
    /\ Len(get_tools_by_domain(tools, "weather")) = 2
    /\ Len(get_tools_by_domain(tools, "custom")) = 1
    /\ get_tools_by_domain(tools, "custom")[1].function = "get_forecast"
    /\ get_tools_by_domain(tools, "internal") = <<>>

\* C2: after register_tool(id, f, m) the catalog holds exactly one entry for
\* id, get_tool(id) is (f, m) of this registration whether or not id was
\* there before, and the entries under other identifiers are unchanged.
C2_RegisterLastWriteWins ==
    [][last_op'.op = "register_tool" =>
        /\ Cardinality({i \in 1..Len(tools') : tools'[i].id = last_op'.tool_id}) = 1
        /\ get_tool(tools', last_op'.tool_id) =
               [function |-> last_op'.func, metadata |-> last_op'.metadata]
        /\ \A other \in (DictKeys(tools) \cup DictKeys(tools')) \ {last_op'.tool_id} :
               /\ get_tool(tools', other) = get_tool(tools, other)
               /\ Cardinality({i \in 1..Len(tools') : tools'[i].id = other}) = 1
      ]_vars

\* C2 witness: the identifier registered last was in the catalog before
\* (entries registered earlier stand behind it), with another callable now
C2_Witness ==
    /\ last_op.op = "register_tool"
    /\ Len(tools) >= 2
    /\ tools[1].id = last_op.tool_id
    /\ last_op.func = "echo"
    /\ last_op.metadata.domain = "weather"
    /\ get_tool(tools, last_op.tool_id).function = "echo"

\* C3: tag matching is OR: get_tools_by_tags([a, b]) returns the union of
\* what get_tools_by_tags([a]) and get_tools_by_tags([b]) return; an empty
\* tag list, or tags that no entry carries, give an empty result.
C3_TagsAreOr ==
    /\ \A a, b \in Tags :
           Range(get_tools_by_tags(tools, <<a, b>>)) =
               Range(get_tools_by_tags(tools, <<a>>)) \cup
               Range(get_tools_by_tags(tools, <<b>>))
    /\ get_tools_by_tags(tools, <<>>) = <<>>
    /\ \A a, b \in Tags :
           (\A i \in 1..Len(tools) : {a, b} \cap tools[i].metadata.tags = {})
               => get_tools_by_tags(tools, <<a, b>>) = <<>>

\* C3 witness: each of two tags selects an entry the other does not
C3_Witness ==
    LET fc == Range(get_tools_by_tags(tools, <<"forecast">>))
        rt == Range(get_tools_by_tags(tools, <<"realtime">>))
    IN  /\ fc \ rt /= {}
        /\ rt \ fc /= {}
        /\ Len(get_tools_by_tags(tools, <<"forecast", "realtime">>)) < Len(tools)

\* C4: after reload() the catalog holds exactly the identifiers and entries
\* of the discovery pass reload() ran; what was in the catalog before and
\* is not found by that pass is gone.
C4_ReloadIsClearThenDiscover ==
    last_op.op = "reload" =>
        /\ DictKeys(tools) = DictKeys(discovered)
        /\ \A tool_id \in DictKeys(discovered) :
               get_tool(tools, tool_id) = get_tool(discovered, tool_id)
        /\ Len(tools) = Len(discovered)
        /\ \A tool_id \in last_op.before \ DictKeys(discovered) :
               get_tool(tools, tool_id) = None

\* C4 witness: a reload that dropped a manually registered tool and
\* registered what it discovered
C4_Witness ==
    /\ last_op.op = "reload"
    /\ "custom.echo" \in last_op.before
    /\ "custom.echo" \notin DictKeys(tools)
    /\ Len(tools) >= 2

(***************************************************************************)
(* Properties of discovery (SpecLoader, SpecReload).                       *)
(***************************************************************************)
\* a pass has run and no file changed since
PassIsCurrent == pass_log /= <<>> /\ ~fs_changed

\* the tool files whose import raised in the pass: broken and not cached
RaisedInPass == {path \in ToolFiles : fs[path] = "raises" /\ path \notin sys_modules}

\* the tool files the pass imported without an exception
LoadedInPass ==
    {path \in ToolFiles : fs[path] /= "absent" /\ path \notin RaisedInPass}

\* the marked callables a module shows under a public name
PublicTools(path) ==
    {ModuleAttrs(path)[i].value : i \in
        {j \in 1..Len(ModuleAttrs(path)) :
            /\ ~ModuleAttrs(path)[j].name.private
            /\ is_tool(ModuleAttrs(path)[j].value)}}

SelectedBy(cfg) ==
    {i \in 1..Len(tools) :
        \/ tools[i].metadata.domain \in Range(cfg.tool_domains)
        \/ cfg.has_tool_tags /\ tools[i].metadata.tags \cap Range(cfg.tool_tags) /= {}}

Resolved == last_op.op = "_discover_tools_for_agent"

\* C7: the resolved list holds no selected tool whose registered name is in
\* exclude_tools, and holds every selected tool whose registered name is
\* not in exclude_tools.
C7_ExclusionByRegisteredName ==
    Resolved =>
        \A i \in SelectedBy(config) :
            tools[i].function \in Range(tool_functions)
                <=> tools[i].metadata.name \notin Range(config.exclude_tools)

\* C8: with no exclusions the resolved list holds exactly the callables of
\* the entries selected by a domain of tool_domains or a tag of tool_tags,
\* each callable once.
C8_UnionWithoutDuplicates ==
    (Resolved /\ config.exclude_tools = <<>>) =>
        /\ Range(tool_functions) = {tools[i].function : i \in SelectedBy(config)}
        /\ \A k \in 1..Len(tool_functions) : Count(tool_functions, tool_functions[k]) = 1

\* C8 witness: a domain listed twice, and a tool matched by its domain and
\* by a tag, next to a tool matched by a tag alone
C8_Witness ==
    /\ Resolved
    /\ config.exclude_tools = <<>>
    /\ config.tool_domains = <<"weather", "weather">>
    /\ config.has_tool_tags
    /\ config.tool_tags = <<"realtime">>
    /\ Len(tool_functions) = 3
    /\ "get_stock_price" \in Range(tool_functions)

(***************************************************************************)
(* Properties of chat client construction (SpecClient).                    *)
(***************************************************************************)
\* the positions of providers whose construction succeeds
Succeeding ==
    {i \in 1..Len(providers) :
        /\ providers[i] \in Supported
        /\ build_for(providers[i], model_config, env).ok}

\* the positions of providers whose builder raises
Raising ==
    {i \in 1..Len(providers) :
        /\ providers[i] \in Supported
        /\ ~build_for(providers[i], model_config, env).ok}

Min(S) == CHOOSE x \in S : \A y \in S : x <= y
Max(S) == CHOOSE x \in S : \A y \in S : x >= y

\* C9: the providers are tried in list order; the client returned is the
\* one of the first provider whose construction succeeds, whatever failed
\* before it, and no provider after it is tried.
C9_FirstSuccessInOrder ==
    /\ pc /= "idle" => attempts = SubSeq(providers, 1, Len(attempts))
    /\ pc = "returned" =>
           /\ Succeeding /= {}
           /\ outcome.at = Min(Succeeding)
           /\ outcome.client = build_for(providers[Min(Succeeding)], model_config, env).client
           /\ attempts = SubSeq(providers, 1, Min(Succeeding))
    /\ pc = "raised" => Succeeding = {}

\* C9 witness: the third provider is used after an unsupported name and a
\* provider whose builder raised
C9_Witness ==
    /\ pc = "returned"
    /\ providers = <<"bogus", "openrouter", "azure">>
    /\ outcome.at = 3
    /\ outcome.client.class = "AzureOpenAIChatClient"
    /\ last_error /= None

\* C10 as claimed: when every candidate fails, the error raised is the
\* failure of the last candidate of the list: the exception of its builder,
\* or for an unsupported name the ValueError raised after the loop.
C10_RaisesFailureOfLastCandidate ==
    pc = "raised" =>
        outcome.at = (IF providers[Len(providers)] \in Supported
                      THEN Len(providers) ELSE 0)

\* C10 amended: when every candidate fails, _build_chat_client raises; the
\* error is the exception of the last candidate whose builder raised, and
\* ValueError("No valid providers configured") when no builder raised
\* (every name unsupported).
C10_RaisesLastExceptionCaught ==
    /\ (pc = "loop" /\ idx > Len(providers)) => Succeeding = {} /\ ENABLED AllProvidersFailed
    /\ pc = "raised" =>
           /\ Succeeding = {}
           /\ attempts = providers
           /\ IF Raising /= {}
              THEN /\ outcome.at = Max(Raising)
                   /\ outcome.error =
                          build_for(providers[Max(Raising)], model_config, env).error
              ELSE /\ outcome.at = 0
                   /\ outcome.error =
                          [type |-> "ValueError", message |-> "No valid providers configured"]

\* C10 witness: two builders raised different errors and the list ends in
\* an unsupported name; the error raised is the second builder's
C10_Witness ==
    /\ pc = "raised"
    /\ providers = <<"openrouter", "azure", "bogus">>
    /\ outcome.at = 2
    /\ outcome.error.message = "AZURE_OPENAI_API_KEY not found in environment"
    /\ build_for("openrouter", model_config, env).error.type = "ImportError"

(***************************************************************************)
(* Properties of agent discovery (SpecAgents).                             *)
(***************************************************************************)
\* the configs discover_all_agents tries: *.yaml, not agent_config, no
\* leading underscore
Eligible ==
    IF agents_dir = None THEN {}
    ELSE {key \in {"weather_agent", "stock_agent"} : agents_dir[key].kind /= "absent"}

\* the eligible configs whose construction succeeds
Constructible == {key \in Eligible : from_yaml(agents_dir[key], tools, env).ok}

\* C11: the mapping discover_all_agents returns has
\* exactly the stems of the configs whose construction succeeded, each with
\* the agent from_yaml built, whatever other configs raised; the configs
\* that raised are the ones logged; with no config or only failing ones the
\* mapping is empty.
C11_AgentDiscoveryIsolatesFailures ==
    /\ last_op.op = "discover_all_agents" =>
           /\ DictKeys(agents) = Constructible
           /\ Len(agents) = Cardinality(Constructible)
           /\ \A i \in 1..Len(agents) :
                  agents[i].agent = from_yaml(agents_dir[agents[i].id], tools, env).agent
           /\ agent_failures = Eligible \ Constructible
           /\ Constructible = {} => agents = <<>>

\* C11 witness: stock_agent.yaml, the first config tried, raised in the
\* chat client construction and weather_agent.yaml was still built
C11_Witness ==
    /\ last_op.op = "discover_all_agents"
    /\ agent_failures = {"stock_agent"}
    /\ DictKeys(agents) = {"weather_agent"}
    /\ agents_dir["stock_agent"].kind = "mapping"
    /\ agents[1].agent.tools /= <<>>

(***************************************************************************)
(* Properties of list_all_tools (SpecCopy).                                *)
(***************************************************************************)
\* C12: nothing a caller does through the dict list_all_tools() returned
\* (setting or deleting a key, modifying an entry it holds) changes what
\* get_tool, get_tools_by_domain, get_tools_by_tags or count_tools return.
C12_ListAllToolsIsDefensiveCopy ==
    [][last_op'.op = "caller" =>
        /\ \A tool_id \in DictKeys(tools) \cup DictKeys(tools') \cup ManualIds :
               get_tool(tools', tool_id) = get_tool(tools, tool_id)
        /\ \A d \in Domains :
               get_tools_by_domain(tools', d) = get_tools_by_domain(tools, d)
        /\ \A a \in Tags :
               get_tools_by_tags(tools', <<a>>) = get_tools_by_tags(tools, <<a>>)
        /\ count_tools(tools') = count_tools(tools)
      ]_vars

(***************************************************************************)
(* Properties of the catalog object (SpecSingleton).                       *)
(***************************************************************************)
\* C13: every ToolRegistry() call returns one and the same object; the
\* catalog is empty until something is registered; a ToolRegistry() call
\* leaves the entries as they are; an identifier leaves the catalog only in
\* a clear() or reload() step, and clear() leaves no entry.
C13_SingleCatalogNeverPartlyCleared ==
    /\ [](Cardinality(handles) <= 1 /\ (handles /= {} => handles = {instance}))
    /\ [](~initialized => tools = <<>>)
    /\ [][/\ last_op'.op = "ToolRegistry" => tools' = tools
          /\ tools' /= tools =>
                last_op'.op \in {"register_tool", "clear", "reload", "AgentFactory"}
          /\ DictKeys(tools) \ DictKeys(tools') /= {} => last_op'.op \in {"clear", "reload"}
          /\ last_op'.op = "clear" => tools' = <<>>
          /\ (instance /= None /\ last_op'.op = "ToolRegistry") =>
                instance' = instance /\ handles' = handles
        ]_vars

\* C13 witness: ToolRegistry() was called again on a catalog with entries
C13_Witness ==
    /\ last_op.op = "ToolRegistry"
    /\ Len(tools) >= 2
    /\ handles = {Object(1)}
    /\ initialized

(***************************************************************************)
(* Properties of identifiers and aggregate views (Spec, SpecCatalog).      *)
(***************************************************************************)
\* C14: every entry of the catalog has a non-empty domain and a non-empty
\* name in its metadata and is stored under "{domain}.{name}".
C14_IdentifierIsDomainDotName ==
    \A i \in 1..Len(tools) :
        /\ tools[i].metadata.domain /= ""
        /\ tools[i].metadata.name /= ""
        /\ tools[i].id = ToolId(tools[i].metadata)

\* C15: register_tool requires a non-empty identifier: the catalog never
\* holds an entry under the empty identifier, and a registration under a
\* non-empty identifier leaves that identifier in the catalog.
C15_NoEmptyIdentifier ==
    /\ "" \notin DictKeys(tools)
    /\ last_op.op = "register_tool" => last_op.tool_id \in DictKeys(tools)

\* the sum of the counts of a dict domain -> count
RECURSIVE SumCounts(_)
SumCounts(per_domain) ==
    IF per_domain = <<>> THEN 0
    ELSE Head(per_domain).count + SumCounts(Tail(per_domain))

\* C16: in every state count_tools() is the number of entries and the sum
\* of count_tools(d) over list_domains(); list_domains() is strictly
\* ascending (sorted, no duplicate) and holds exactly the domains of the
\* entries; get_summary() reports total_tools equal to the sum of its
\* tools_per_domain, for the domains of list_domains(), and a get_summary()
\* step leaves the catalog unchanged.
C16_AggregateViewsAgree ==
    /\ [](/\ count_tools(tools) = Cardinality(DictKeys(tools))
          /\ count_tools(tools) =
                SumCounts([k \in 1..Len(list_domains(tools)) |->
                    [count |-> count_tools_in_domain(tools, list_domains(tools)[k])]])
          /\ \A k \in 1..(Len(list_domains(tools)) - 1) :
                str_lt(list_domains(tools)[k], list_domains(tools)[k + 1])
          /\ Range(list_domains(tools)) =
                {tools[i].metadata.domain : i \in 1..Len(tools)}
          /\ last_op.op = "get_summary" =>
                /\ summary.total_tools = Len(tools)
                /\ summary.total_tools = SumCounts(summary.tools_per_domain)
                /\ summary.domains = list_domains(tools)
                /\ \A k \in 1..Len(summary.tools_per_domain) :
                       summary.tools_per_domain[k].domain = summary.domains[k])
    /\ [][last_op'.op = "get_summary" => tools' = tools]_vars

\* C16 witness: a summary of three entries in two domains, the catalog
\* listing the later domain first
C16_Witness ==
    /\ last_op.op = "get_summary"
    /\ summary.total_tools = 3
    /\ summary.domains = <<"stock", "weather">>
    /\ tools[1].metadata.domain = "weather"
    /\ summary.tools_per_domain[2].count = 2

(***************************************************************************)
(* Properties of the draft tools (SpecDrafts).                             *)
(***************************************************************************)
\* C17: once reject_draft has succeeded for a draft, no later tool call
\* hands that draft to a send tool or sets its status to "sent".
C17_RejectedDraftIsNeverSent ==
    [][\A draft_id \in rejected :
          /\ Count(outbox', draft_id) = Count(outbox, draft_id)
          /\ get_draft(drafts', draft_id).status /= "sent"
      ]_vars

(***************************************************************************)
(* Properties of the account manager (SpecAccounts).                       *)
(***************************************************************************)
\* the positions of EMAIL_ACCOUNTS whose entry has id, provider and email
Configured ==
    IF email_env.parses
    THEN {i \in 1..Len(email_env.entries) :
            {"id", "provider", "email"} \subseteq email_env.entries[i].keys}
    ELSE {}

\* C18: after the manager loaded EMAIL_ACCOUNTS, every entry with id,
\* provider and email is in accounts under its id and get_account(id)
\* returns it; the first such entry is the default account unless
\* DEFAULT_EMAIL_ACCOUNT names another loaded account.
C18_DocumentedEntriesAreLoaded ==
    manager /= None =>
        /\ \A i \in Configured :
               /\ email_env.entries[i].id \in DictKeys(manager.accounts)
               /\ get_account(manager, email_env.entries[i].id).ok
        /\ (Configured /= {} /\
            email_env.DEFAULT_EMAIL_ACCOUNT \notin DictKeys(manager.accounts)) =>
               manager.default_account_id = email_env.entries[Min(Configured)].id

(***************************************************************************)
(* Properties of order (Spec, SpecFactory).                                *)
(***************************************************************************)
\* the identifiers of a dict, in dict order
IdsOf(d) == [i \in 1..Len(d) |-> d[i].id]

\* the k-th smallest number of S
Nth(S, k) == CHOOSE x \in S : Cardinality({y \in S : y < x}) = k - 1

\* the catalog positions of t whose entry carries one of the tags
WithTags(t, tags) == {i \in 1..Len(t) : t[i].metadata.tags \cap Range(tags) /= {}}

\* C19: the catalog keeps its identifiers in the order of their first
\* registration since the last clear: a registration of a new identifier
\* puts it last, a re-registration leaves every position as it is, clear
\* empties the order and reload and factory loading register in discovery
\* order; get_tools_by_domain and get_tools_by_tags list their entries in
\* that order.
C19_ListingsKeepRegistrationOrder ==
    /\ [][/\ last_op'.op = "register_tool" =>
                IdsOf(tools') = IF last_op'.tool_id \in DictKeys(tools)
                                THEN IdsOf(tools)
                                ELSE Append(IdsOf(tools), last_op'.tool_id)
          /\ last_op'.op = "clear" => IdsOf(tools') = <<>>
          /\ last_op'.op = "reload" => IdsOf(tools') = IdsOf(discovered')
          /\ last_op'.op = "AgentFactory" =>
                IdsOf(tools') = IF tools = <<>> THEN IdsOf(discovered') ELSE IdsOf(tools)
        ]_vars
    /\ [](\A d \in Domains :
            /\ Len(get_tools_by_domain(tools, d)) = Cardinality(InDomain(d))
            /\ \A k \in 1..Cardinality(InDomain(d)) :
                   get_tools_by_domain(tools, d)[k] = ToolOf(tools[Nth(InDomain(d), k)]))
    /\ [](\A a, b \in Tags :
            /\ Len(get_tools_by_tags(tools, <<a, b>>)) =
                   Cardinality(WithTags(tools, <<a, b>>))
            /\ \A k \in 1..Cardinality(WithTags(tools, <<a, b>>)) :
                   get_tools_by_tags(tools, <<a, b>>)[k] =
                       ToolOf(tools[Nth(WithTags(tools, <<a, b>>), k)]))

\* C19 witness: the identifier registered first was registered again after
\* another one and still leads the catalog and the weather listing
C19_Witness ==
    /\ last_op.op = "register_tool"
    /\ Len(tools) >= 2
    /\ tools[1].id = last_op.tool_id
    /\ tools[1].function = "echo"
    /\ tools[2].function = "get_forecast"
    /\ tools[2].metadata.domain = "weather"
    /\ last_op.metadata.domain = "weather"
    /\ Len(get_tools_by_domain(tools, "weather")) >= 2
    /\ get_tools_by_domain(tools, "weather")[1].function = last_op.func

\* where a callable is selected first: the domains of tool_domains in list
\* order, catalog order within a domain, then the tag matches in catalog
\* order; 0 for a callable that is not selected
FirstSelectedAt(func, cfg) ==
    LET width == Len(tools) + 1
        by_domain == {(k - 1) * width + i : k \in 1..Len(cfg.tool_domains), i \in 1..Len(tools)}
        hits == {n \in by_domain :
                    LET k == ((n - 1) \div width) + 1
                        i == ((n - 1) % width) + 1
                    IN  /\ tools[i].function = func
                        /\ tools[i].metadata.domain = cfg.tool_domains[k]}
                \cup
                {Len(cfg.tool_domains) * width + i : i \in
                    {j \in 1..Len(tools) :
                        /\ cfg.has_tool_tags
                        /\ tools[j].function = func
                        /\ tools[j].metadata.tags \cap Range(cfg.tool_tags) /= {}}}
    IN  IF hits = {} THEN 0 ELSE Min(hits)

\* C20: the resolved list is ordered by where each callable is selected
\* first (domains in list order, catalog order within a domain, tag matches
\* after all domain tools), holds no callable twice, holds every selected
\* callable when nothing is excluded, and with exclusions is the list
\* without exclusions with elements left out.
C20_ResolvedOrder ==
    Resolved =>
        LET unfiltered == discover_tools_for_agent(tools, [config EXCEPT !.exclude_tools = <<>>])
        IN  /\ \A k \in 1..Len(tool_functions) : FirstSelectedAt(tool_functions[k], config) > 0
            /\ \A k \in 1..(Len(tool_functions) - 1) :
                   FirstSelectedAt(tool_functions[k], config) <
                       FirstSelectedAt(tool_functions[k + 1], config)
            /\ config.exclude_tools = <<>> =>
                   Range(tool_functions) = {tools[i].function : i \in SelectedBy(config)}
            /\ tool_functions =
                   SelectSeq(unfiltered, LAMBDA func : func \in Range(tool_functions))

\* C20 witness: custom is listed before weather, a weather tool is matched
\* by its tag as well, a tool of another domain comes in by tag alone, and
\* one tool is excluded from the middle
C20_Witness ==
    /\ Resolved
    /\ config.tool_domains = <<"custom", "weather">>
    /\ config.has_tool_tags
    /\ config.tool_tags = <<"realtime">>
    /\ config.exclude_tools = <<"get_forecast">>
    /\ Len(tool_functions) = 3
    /\ tool_functions[1] = "echo"
    /\ tool_functions[3] = "get_stock_price"
    /\ tools[1].metadata.domain = "weather"

(***************************************************************************)
(* Properties of the underscore convention (SpecLoader).                   *)
(***************************************************************************)
\* the module paths of the .py files that lie directly inside a
\* subdirectory of tools/ when neither name starts with an underscore
PublicFiles ==
    {path \in {"weather", "stock", "internal", "sub", "tools"} \X
              {"forecast", "current_weather", "stock_price", "helpers",
               "purge", "toplevel", "deep", "notes", "sub"} :
        /\ \E i \in 1..Len(ToolsDirEntries) :
              LET d == ToolsDirEntries[i]
              IN  d.name.stem = path[1] /\ d.is_dir /\ ~d.name.private
        /\ \E j \in 1..Len(DirEntries(path[1])) :
              LET e == DirEntries(path[1])[j]
              IN  /\ e.name.stem = path[2]
                  /\ ~e.is_dir
                  /\ e.name.suffix = ".py"
                  /\ ~e.name.private}

\* the public files that loaded in the pass
PublicFilesLoaded ==
    {path \in PublicFiles : path \in ToolFiles => path \in LoadedInPass}

\* the marked callables that sit behind an underscore name at one of the
\* three levels, in a file outside the domain subdirectories, or deeper
HiddenTools ==
    {"purge_cache", "format_price", "cached_forecast", "registry_stats", "deep_forecast"}

\* C21: a pass returns no tool from a subdirectory, a file or a module
\* attribute whose name starts with an underscore, nor from a file that is
\* not directly inside a domain subdirectory: every entry is a marked
\* callable that a loaded public file shows under a public name; and every
\* such callable has its identifier in the result, bound to a callable that
\* declares this identifier.
C21_UnderscoreConvention ==
    PassIsCurrent =>
        /\ \A i \in 1..Len(discovered) :
               /\ discovered[i].function \notin HiddenTools
               /\ \E path \in PublicFilesLoaded : discovered[i].function \in PublicTools(path)
        /\ \A path \in PublicFilesLoaded : \A func \in PublicTools(path) :
               /\ ToolId(get_tool_metadata(func)) \in DictKeys(discovered)
               /\ ToolId(get_tool_metadata(
                      get_tool(discovered, ToolId(get_tool_metadata(func))).function))
                    = ToolId(get_tool_metadata(func))

\* C21 witness: a pass over a tree in which every file loads: the hidden
\* callables are all marked, and the result has the three public tools
C21_Witness ==
    /\ PassIsCurrent
    /\ HiddenTools \subseteq Marked
    /\ fs = AllFilesLoad
    /\ PublicFilesLoaded = ToolFiles
    /\ DictKeys(discovered) =
           {"weather.get_forecast", "weather.get_weather", "stock.get_stock_price"}

(***************************************************************************)
(* Properties of the catalog under threads (SpecRace, SpecLookup).         *)
(***************************************************************************)
\* the entry a register_tool call stores
EntryOf(call) == [function |-> call.func, metadata |-> call.metadata]

\* both register_tool threads have returned
BothReturned ==
    /\ DOMAIN threads = {"t1", "t2"}
    /\ \A th \in {"t1", "t2"} :
           threads[th].op = "register_tool" /\ threads[th].pc = "returned"

\* C22: when two register_tool calls of different threads have returned,
\* under every interleaving the catalog has one entry per identifier; with
\* the same identifier the entry is the one of the call that stored last,
\* with distinct identifiers each call's entry is present.
C22_ConcurrentRegisterLastWriteWins ==
    BothReturned =>
        LET a == threads["t1"]
            b == threads["t2"]
            last == IF a.wrote > b.wrote THEN a ELSE b
        IN  /\ \A i, j \in 1..Len(tools) : tools[i].id = tools[j].id => i = j
            /\ a.wrote /= b.wrote
            /\ a.args.tool_id = b.args.tool_id =>
                   get_tool(tools, a.args.tool_id) = EntryOf(last.args)
            /\ a.args.tool_id /= b.args.tool_id =>
                   /\ get_tool(tools, a.args.tool_id) = EntryOf(a.args)
                   /\ get_tool(tools, b.args.tool_id) = EntryOf(b.args)

\* C22 witness: both threads registered the same identifier with different
\* callables, the second thread stored first, and the identifier was in the
\* catalog before
C22_Witness ==
    /\ BothReturned
    /\ threads["t1"].args.tool_id = threads["t2"].args.tool_id
    /\ threads["t1"].args.func /= threads["t2"].args.func
    /\ threads["t1"].wrote = 2
    /\ threads["t2"].wrote = 1
    /\ Len(tools) = 2
    /\ tools[1].id = threads["t1"].args.tool_id
    /\ tools[1].function = threads["t1"].args.func

\* the entries of a dict
EntriesOf(d) == {ToolOf(d[i]) : i \in 1..Len(d)}

\* C23: no lookup waits for a reload() that runs in another thread.
\* count_tools() returns the size the catalog has at that point of the
\* reload: the old size before the clear, 0 after it, the number of tools
\* registered so far during the repopulation.  An iterating lookup that
\* returns holds only entries of the old catalog or of the discovery
\* result, and one that raises RuntimeError met a change of size.
C23_LookupSeesReloadInProgress ==
    ("rd" \in DOMAIN threads /\ threads["rd"].pc \in {"returned", "raised"}) =>
        LET rd == threads["rd"]
            rl == threads["rl"]
        IN  /\ rd.op = "count_tools" =>
                   rd.result.value =
                       CASE rd.seen.pc = "called" -> Len(rl.before)
                         [] rd.seen.pc = "cleared" -> 0
                         [] OTHER -> rd.seen.k
            /\ (rd.op /= "count_tools" /\ rd.pc = "returned") =>
                   Range(rd.result.value) \subseteq EntriesOf(rl.before) \cup EntriesOf(rl.found)
            /\ rd.pc = "raised" => rd.seen /= ReloadStage(threads)

\* C23 witness: get_tools_by_domain("weather") ran between two
\* registrations of the reload and returned one tool; the catalog held a
\* different weather tool before the reload and holds two after it
C23_Witness ==
    /\ DOMAIN threads = {"rl", "rd"}
    /\ threads["rl"].pc = "returned"
    /\ threads["rd"].pc = "returned"
    /\ threads["rd"].op = "get_tools_by_domain"
    /\ threads["rd"].arg.domain = "weather"
    /\ threads["rd"].seen.pc = "registering"
    /\ Len(threads["rd"].result.value) = 1
    /\ threads["rd"].result.value /= get_tools_by_domain(threads["rl"].before, "weather")
    /\ threads["rd"].result.value /= get_tools_by_domain(tools, "weather")
    /\ Len(get_tools_by_domain(threads["rl"].before, "weather")) = 1
    /\ Len(get_tools_by_domain(tools, "weather")) = 2

(***************************************************************************)
(* Properties of the draft tools and the draft store (SpecDrafts,          *)
(* SpecStore).                                                             *)
(***************************************************************************)
\* C24: a draft is handed to a send tool at most once, whatever sequence of
\* approve_draft and reject_draft calls is made on it; approve_draft on a
\* draft whose status is "sent" sends nothing and leaves the store as it is.
C24_DraftSentAtMostOnce ==
    /\ [](\A i \in 1..Len(drafts) : Count(outbox, drafts[i].id) <= 1)
    /\ [][(/\ last_op'.op = "approve_draft"
           /\ get_draft(drafts, last_op'.draft_id) /= None
           /\ get_draft(drafts, last_op'.draft_id).status = "sent")
             => (outbox' = outbox /\ drafts' = drafts)]_vars

\* C25: approve_draft sets the status "sent" only when the send tool
\* reported success: after a send that returned an error text or raised,
\* the draft has the status it had; for an unknown draft id or an unknown
\* message type nothing is sent and the store is unchanged.
C25_SentOnlyAfterSuccessfulSend ==
    [][last_op'.op = "approve_draft" =>
          LET draft == get_draft(drafts, last_op'.draft_id)
          IN  /\ (draft /= None /\ last_op'.send \in {"error_text", "raises"}) =>
                     get_draft(drafts', last_op'.draft_id).status = draft.status
              /\ draft = None => (outbox' = outbox /\ drafts' = drafts)
              /\ (draft /= None /\ draft.message_type \notin {"email", "whatsapp"}) =>
                     (outbox' = outbox /\ drafts' = drafts)
      ]_vars

\* C26: the stored drafts have pairwise distinct ids.
C26_DraftIdsAreUnique ==
    \A i, j \in 1..Len(drafts) : drafts[i].id = drafts[j].id => i = j

(***************************************************************************)
(* Properties of the account manager at runtime (SpecManager).             *)
(***************************************************************************)
\* C27: default_account_id is None or a key of accounts, and None exactly
\* when accounts is empty; add_account with an id that exists, and
\* remove_account or set_default_account with an unknown id, raise and
\* leave accounts and the default as they were.
C27_DefaultAccountInvariant ==
    /\ [](manager /= None =>
            /\ manager.default_account_id \in DictKeys(manager.accounts) \cup {""}
            /\ manager.default_account_id = "" <=> manager.accounts = <<>>)
    /\ [][/\ (/\ last_op'.op = "add_account"
              /\ last_op'.account_id \in DictKeys(manager.accounts))
                => (last_op'.raised = "ValueError" /\ manager' = manager)
          /\ (/\ last_op'.op \in {"remove_account", "set_default_account"}
              /\ last_op'.account_id \notin DictKeys(manager.accounts))
                => (last_op'.raised = "ValueError" /\ manager' = manager)
        ]_vars

\* C27 witness: the default account was removed while another account was
\* left, which is the default now
C27_Witness ==
    /\ manager /= None
    /\ last_op.op = "remove_account"
    /\ last_op.raised = ""
    /\ last_op.account_id = "work"
    /\ DictKeys(manager.accounts) = {"personal"}
    /\ manager.default_account_id = "personal"

(***************************************************************************)
(* Properties of factory construction and of reload (Spec, SpecBroken).    *)
(***************************************************************************)
\* C28: AgentFactory() runs discovery exactly when the catalog holds no
\* tool.  On a catalog that is not empty (also one with manually registered
\* tools only) it leaves the catalog as it is and loads nothing: no module
\* is imported and no pass is logged.  On an empty catalog it runs a pass
\* over the tools directory and registers every tool the pass returned.
C28_FactoryDiscoversOnlyWhenEmpty ==
    [][last_op'.op = "AgentFactory" =>
          IF tools /= <<>>
          THEN /\ tools' = tools
               /\ sys_modules' = sys_modules
               /\ discovered' = discovered
               /\ load_errors' = load_errors
               /\ pass_log' = pass_log
          ELSE /\ \E order \in Orders :
                     /\ discovered' = discover_tools(fs, sys_modules, order).found
                     /\ sys_modules' = discover_tools(fs, sys_modules, order).cache
               /\ pass_log' /= <<>>
               /\ DictKeys(tools') = DictKeys(discovered')
               /\ \A tool_id \in DictKeys(discovered') :
                      get_tool(tools', tool_id) = get_tool(discovered', tool_id)
      ]_vars

\* C28 witness: a factory was constructed over a catalog that held one
\* manually registered tool; no pass has run although every tool file loads
C28_Witness ==
    /\ last_op.op = "AgentFactory"
    /\ last_op.before = {"custom.echo"}
    /\ DictKeys(tools) = {"custom.echo"}
    /\ fs = AllFilesLoad
    /\ pass_log = <<>>
    /\ sys_modules = {}

\* C29: a reload() whose discovery pass raises leaves the catalog empty:
\* the entries it held before are not put back, and nothing of the pass is
\* registered.
C29_ReloadIsNotAllOrNothing ==
    [][(last_op'.op = "reload" /\ last_op'.raised /= "") =>
          /\ tools' = <<>>
          /\ \A tool_id \in DictKeys(tools) : get_tool(tools', tool_id) = None
      ]_vars

\* C29 witness: reload() raised over a catalog that held the shipped
\* tools, loaded by an earlier reload(); the catalog is empty
C29_Witness ==
    /\ last_op.op = "reload"
    /\ last_op.raised = "FileNotFoundError"
    /\ last_op.before =
           {"weather.get_forecast", "weather.get_weather", "stock.get_stock_price"}
    /\ pass_log /= <<>>
    /\ tools = <<>>

(***************************************************************************)
(* Properties of the tool marker (SpecMarking).                            *)
(***************************************************************************)
\* C30: marking attaches an attribute and nothing else.  The decorator
\* returns the callable it was given; the callable then carries the domain
\* and tags of the call and the name of the call, or its own identifier
\* when the name was omitted; no other callable changes.  The same marking
\* made a second time leaves the metadata as the first left it.  At every
\* time is_tool(f) is true exactly when get_tool_metadata(f) is not None.
C30_MarkingIsAttributeAttachment ==
    /\ [](\A func \in Callables :
            hasattr_tool_metadata(func_attrs, func) <=> getattr_tool_metadata(func_attrs, func) /= None)
    /\ [][(last_op'.op = "tool" /\ last_op'.raised = "") =>
             /\ last_op'.returned = [callable |-> last_op'.func]
             /\ getattr_tool_metadata(func_attrs', last_op'.func).domain = last_op'.domain
             /\ getattr_tool_metadata(func_attrs', last_op'.func).tags = last_op'.tags
             /\ getattr_tool_metadata(func_attrs', last_op'.func).name =
                    (IF last_op'.name = "" THEN last_op'.func ELSE last_op'.name)
             /\ \A other \in Callables \ {last_op'.func} : func_attrs'[other] = func_attrs[other]
             /\ last_op' = last_op => func_attrs' = func_attrs
         ]_vars

\* C30 witness: echo was marked without a name after get_forecast had been
\* marked with one
C30_Witness ==
    /\ last_op.op = "tool"
    /\ last_op.func = "echo"
    /\ last_op.name = ""
    /\ hasattr_tool_metadata(func_attrs, "echo")
    /\ getattr_tool_metadata(func_attrs, "echo").name = "echo"
    /\ hasattr_tool_metadata(func_attrs, "get_forecast")
    /\ getattr_tool_metadata(func_attrs, "get_forecast").name = "forecast"
    /\ ~hasattr_tool_metadata(func_attrs, "len")

====
